---- MODULE Spec2Model ----
(***************************************************************************)
(* Model of scripts/count_countries.py: the URL feature extractors, the    *)
(* three cached lookup strategies, the cache files with their schema       *)
(* migration, and the batch driver main() with its try/except/finally.     *)
(*                                                                         *)
(* Text is modelled as a sequence of one-character strings, so that the    *)
(* regular expressions, the key formatting and the hex conversion are      *)
(* computed and not assumed.  A float is a sign and a magnitude counted in *)
(* units of 10^-7 degree.  A JSON value is a record tagged by its field t. *)
(***************************************************************************)
EXTENDS Integers, Sequences, FiniteSets, TLC

\* ------------------------------------------------------------------ bounds

\* Rows of the CSV file that one run reads.
MaxRows == 2

\* ------------------------------------------------------------------- text

Digits == {"0", "1", "2", "3", "4", "5", "6", "7", "8", "9"}

HexDigits == Digits \cup {"a", "b", "c", "d", "e", "f", "A", "B", "C", "D", "E", "F"}

\* The character class [-\d.] of the coordinate pattern.
CoordChars == Digits \cup {"-", "."}

Whitespace == {" "}

\* Python's None in a country or state field, and as a function result.
NULL == "<None>"

\* True iff pat occurs in s starting at index i.
MatchesAt(s, i, pat) ==
    /\ i >= 1
    /\ i + Len(pat) - 1 <= Len(s)
    /\ SubSeq(s, i, i + Len(pat) - 1) = pat

\* Index of the last character of the longest run of characters of class
\* that starts at index i (i - 1 when s[i] is not in class): a greedy "+".
RECURSIVE RunEnd(_, _, _)
RunEnd(s, i, class) ==
    IF i <= Len(s) /\ s[i] \in class THEN RunEnd(s, i + 1, class) ELSE i - 1

\* Index of the last character of the longest run of characters outside
\* class that starts at index i: a greedy negated class.
RECURSIVE RunEndNot(_, _, _)
RunEndNot(s, i, class) ==
    IF i <= Len(s) /\ s[i] \notin class THEN RunEndNot(s, i + 1, class) ELSE i - 1

\* str.strip().
RECURSIVE LStrip(_)
LStrip(s) ==
    IF s # <<>> /\ Head(s) \in Whitespace THEN LStrip(Tail(s)) ELSE s

RECURSIVE RStrip(_)
RStrip(s) ==
    IF s # <<>> /\ s[Len(s)] \in Whitespace
    THEN RStrip(SubSeq(s, 1, Len(s) - 1))
    ELSE s

Strip(s) == RStrip(LStrip(s))

\* str.replace('+', ' ').
ReplacePlus(s) == [i \in 1..Len(s) |-> IF s[i] = "+" THEN " " ELSE s[i]]

\* The percent escapes urllib.parse.unquote decodes in this model's URLs.
PercentCodes == (<<"2", "0">> :> " ") @@ (<<"2", "B">> :> "+") @@ (<<"2", "F">> :> "/")

\* urllib.parse.unquote: %XX becomes the character it encodes.
RECURSIVE Unquote(_)
Unquote(s) ==
    IF s = <<>> THEN <<>>
    ELSE IF Head(s) = "%" /\ Len(s) >= 3 /\ SubSeq(s, 2, 3) \in DOMAIN PercentCodes
         THEN <<PercentCodes[SubSeq(s, 2, 3)]>> \o Unquote(SubSeq(s, 4, Len(s)))
         ELSE <<Head(s)>> \o Unquote(Tail(s))

DigitVal(c) ==
    CASE c = "0" -> 0 [] c = "1" -> 1 [] c = "2" -> 2 [] c = "3" -> 3
      [] c = "4" -> 4 [] c = "5" -> 5 [] c = "6" -> 6 [] c = "7" -> 7
      [] c = "8" -> 8 [] c = "9" -> 9
      [] c \in {"a", "A"} -> 10 [] c \in {"b", "B"} -> 11
      [] c \in {"c", "C"} -> 12 [] c \in {"d", "D"} -> 13
      [] c \in {"e", "E"} -> 14 [] c \in {"f", "F"} -> 15

DigitChar(d) == <<"0", "1", "2", "3", "4", "5", "6", "7", "8", "9">>[d + 1]

\* The value of a run of digits in the given base (0 for the empty run).
RECURSIVE NumVal(_, _)
NumVal(s, base) ==
    IF s = <<>> THEN 0
    ELSE NumVal(SubSeq(s, 1, Len(s) - 1), base) * base + DigitVal(s[Len(s)])

\* str(n) for n >= 0.
RECURSIVE IntToStr(_)
IntToStr(n) ==
    IF n < 10 THEN <<DigitChar(n)>> ELSE IntToStr(n \div 10) \o <<DigitChar(n % 10)>>

\* n as exactly w digits, zero padded on the left.
RECURSIVE PadDigits(_, _)
PadDigits(n, w) ==
    IF w = 0 THEN <<>> ELSE PadDigits(n \div 10, w - 1) \o <<DigitChar(n % 10)>>

RECURSIVE Pow10(_)
Pow10(k) == IF k = 0 THEN 1 ELSE 10 * Pow10(k - 1)

\* ----------------------------------------------------------------- floats

\* Decimal places a float of the model carries; the coordinates written in
\* the model's URLs have at most this many.
FloatDecimals == 7

\* Decimal places of the coordinate cache key, the 6 of f'{lat:.6f}'.
KeyDecimals == 6

\* float(text) for text over [-\d.]: an optional sign, then digits with at
\* most one point and at least one digit; anything else is a ValueError.
ParseFloat(text) ==
    LET neg == text # <<>> /\ Head(text) = "-"
        body == IF neg THEN Tail(text) ELSE text
        e1 == RunEnd(body, 1, Digits)
        hasPoint == e1 + 1 <= Len(body) /\ body[e1 + 1] = "."
        e2 == IF hasPoint THEN RunEnd(body, e1 + 2, Digits) ELSE e1
        intPart == SubSeq(body, 1, e1)
        fracPart == IF hasPoint THEN SubSeq(body, e1 + 2, e2) ELSE <<>>
        kept == SubSeq(fracPart, 1, IF Len(fracPart) < FloatDecimals
                                    THEN Len(fracPart) ELSE FloatDecimals)
    IN  IF e2 = Len(body) /\ Len(intPart) + Len(fracPart) >= 1
        THEN [ok |-> TRUE, neg |-> neg,
              mag |-> NumVal(intPart, 10) * Pow10(FloatDecimals)
                      + NumVal(kept, 10) * Pow10(FloatDecimals - Len(kept))]
        ELSE [ok |-> FALSE]

\* Fmt6 with the digits behind the sixth decimal cut off.
Fmt6_Truncated(x) ==
    LET n == x.mag \div Pow10(FloatDecimals - KeyDecimals)
    IN  (IF x.neg THEN <<"-">> ELSE <<>>)
        \o IntToStr(n \div Pow10(KeyDecimals))
        \o <<".">>
        \o PadDigits(n % Pow10(KeyDecimals), KeyDecimals)

\* f'{x:.6f}': x rounded to KeyDecimals places (a tie to the even digit),
\* the sign kept even when the magnitude rounds to zero.
Fmt6(x) ==
    LET unit == Pow10(FloatDecimals - KeyDecimals)
        q == x.mag \div unit
        r == x.mag % unit
        up == 2 * r > unit \/ (2 * r = unit /\ q % 2 = 1)
        n == IF up THEN q + 1 ELSE q
    IN  (IF x.neg THEN <<"-">> ELSE <<>>)
        \o IntToStr(n \div Pow10(KeyDecimals))
        \o <<".">>
        \o PadDigits(n % Pow10(KeyDecimals), KeyDecimals)

\* ------------------------------------------------------------- extractors

STR_search == <<"/", "s", "e", "a", "r", "c", "h", "/">>

STR_place == <<"/", "p", "l", "a", "c", "e", "/">>

STR_1s0x == <<"1", "s", "0", "x">>

STR_c0x == <<":", "0", "x">>

STR_hex == <<"h", "e", "x", ":">>

\* The least index in 1..Len(s) at which P holds, 0 when there is none:
\* the leftmost match re.search reports.
FirstIndex(s, P(_)) ==
    IF \E i \in 1..Len(s) : P(i)
    THEN CHOOSE i \in 1..Len(s) : P(i) /\ \A j \in 1..(i - 1) : ~P(j)
    ELSE 0

\* r'1s(0x[0-9a-fA-F]+:0x[0-9a-fA-F]+)' matched at index i; the index of the
\* last character of the match, 0 when it does not match there.
HexMatchEnd(url, i) ==
    IF ~MatchesAt(url, i, STR_1s0x) THEN 0
    ELSE LET e1 == RunEnd(url, i + 4, HexDigits)
         IN  IF e1 < i + 4 \/ ~MatchesAt(url, e1 + 1, STR_c0x) THEN 0
             ELSE LET e2 == RunEnd(url, e1 + 4, HexDigits)
                  IN  IF e2 < e1 + 4 THEN 0 ELSE e2

\* extract_place_id: group 1 of the first match, <<>> for None.
extract_place_id(url) ==
    LET P(i) == HexMatchEnd(url, i) # 0
        i == FirstIndex(url, P)
    IN  IF i = 0 THEN <<>> ELSE SubSeq(url, i + 2, HexMatchEnd(url, i))

\* r'/search/([-\d.]+),([-\d.]+)' matched at index i: the two groups.
CoordMatch(url, i) ==
    IF ~MatchesAt(url, i, STR_search) THEN [ok |-> FALSE]
    ELSE LET a == i + Len(STR_search)
             e1 == RunEnd(url, a, CoordChars)
             e2 == RunEnd(url, e1 + 2, CoordChars)
         IN  IF e1 >= a /\ e1 + 1 <= Len(url) /\ url[e1 + 1] = "," /\ e2 >= e1 + 2
             THEN [ok |-> TRUE, g1 |-> SubSeq(url, a, e1), g2 |-> SubSeq(url, e1 + 2, e2)]
             ELSE [ok |-> FALSE]

\* extract_coordinates_from_url: the two floats of the first match, not
\* found when there is no match or a group is no float.
extract_coordinates_from_url(url) ==
    LET P(i) == CoordMatch(url, i).ok
        i == FirstIndex(url, P)
    IN  IF i = 0 THEN [found |-> FALSE]
        ELSE LET m == CoordMatch(url, i)
                 lat == ParseFloat(m.g1)
                 lon == ParseFloat(m.g2)
             IN  IF lat.ok /\ lon.ok
                 THEN [found |-> TRUE,
                       lat |-> [neg |-> lat.neg, mag |-> lat.mag],
                       lon |-> [neg |-> lon.neg, mag |-> lon.mag]]
                 ELSE [found |-> FALSE]

\* r'/place/([^/]+)/' matched at index i: index of the last character of
\* group 1, 0 when it does not match there.
PlaceMatchEnd(url, i) ==
    IF ~MatchesAt(url, i, STR_place) THEN 0
    ELSE LET a == i + Len(STR_place)
             e == RunEndNot(url, a, {"/"})
         IN  IF e >= a /\ e + 1 <= Len(url) THEN e ELSE 0

\* extract_place_name: the stripped title, else the decoded /place/ segment,
\* else the empty string.
extract_place_name(title, url) ==
    IF Strip(title) # <<>> THEN Strip(title)
    ELSE LET P(i) == PlaceMatchEnd(url, i) # 0
             i == FirstIndex(url, P)
         IN  IF i = 0 THEN <<>>
             ELSE Unquote(ReplacePlus(SubSeq(url, i + Len(STR_place), PlaceMatchEnd(url, i))))

\* has_hex_id with the gate left open.
has_hex_id_Never(url) == FALSE

\* The inline pattern of main, r'1s0x[0-9a-fA-F]+:0x[0-9a-fA-F]+'.
has_hex_id(url) == \E i \in 1..Len(url) : HexMatchEnd(url, i) # 0

\* Index of the first ":" of s, 0 when there is none.
ColonIndex(s) == LET P(i) == s[i] = ":" IN FirstIndex(s, P)

\* str.split(':')[1]: the text between the first and the second colon.
SecondPart(s) ==
    LET rest == SubSeq(s, ColonIndex(s) + 1, Len(s))
        c == ColonIndex(rest)
    IN  IF c = 0 THEN rest ELSE SubSeq(rest, 1, c - 1)

\* int(text, 16) accepts an optional 0x prefix before at least one hex digit.
IsHexLiteral(text) ==
    LET body == IF MatchesAt(text, 1, <<"0", "x">>) \/ MatchesAt(text, 1, <<"0", "X">>)
                THEN SubSeq(text, 3, Len(text)) ELSE text
    IN  body # <<>> /\ \A i \in 1..Len(body) : body[i] \in HexDigits

HexLiteralVal(text) ==
    LET body == IF MatchesAt(text, 1, <<"0", "x">>) \/ MatchesAt(text, 1, <<"0", "X">>)
                THEN SubSeq(text, 3, Len(text)) ELSE text
    IN  NumVal(body, 16)

\* hex_to_cid converting the part before the colon.
hex_to_cid_FirstPart(hex_place_id) ==
    LET first_part == SubSeq(hex_place_id, 1, ColonIndex(hex_place_id) - 1)
    IN  IF ColonIndex(hex_place_id) # 0 /\ IsHexLiteral(first_part)
        THEN IntToStr(HexLiteralVal(first_part))
        ELSE <<>>

\* hex_to_cid: the decimal text of the part after the colon, <<>> for None.
hex_to_cid(hex_place_id) ==
    IF ColonIndex(hex_place_id) # 0 /\ IsHexLiteral(SecondPart(hex_place_id))
    THEN IntToStr(HexLiteralVal(SecondPart(hex_place_id)))
    ELSE <<>>

\* ------------------------------------------------------------ JSON values

\* CACHE_SCHEMA_VERSION.
CACHE_SCHEMA_VERSION == 3

JInt(n) == [t |-> "int", v |-> n]

\* A bare string value, the country of a version-1 cache.
JStr(c) == [t |-> "str", v |-> c]

\* A JSON null value, the failed lookup of a version-1 cache.
JNull == [t |-> "null"]

\* The dict {'country': c, 'state': s}.
Entry(c, s) == [t |-> "dict", country |-> c, state |-> s]

\* NegativeEntry in the version-1 shape: a bare null.
NegativeEntry_BareNull == JNull

\* The dict {'country': None, 'state': None} of a failed lookup.
NegativeEntry == Entry(NULL, NULL)

\* The key 'schema_version'.
STR_schema_version ==
    <<"s", "c", "h", "e", "m", "a", "_", "v", "e", "r", "s", "i", "o", "n">>

\* The empty dict.
EmptyDict == [k \in {} |-> JNull]

\* {k: v for k, v in data.items() if k != 'schema_version'}.
StripSchema(data) == [k \in DOMAIN data \ {STR_schema_version} |-> data[k]]

\* Update with the entries of d kept where both have the key.
Update_KeepExisting(d, other) == d @@ other

\* d.update(other): the entries of other replace those of d.
Update(d, other) == other @@ d

\* cache[key] = value.
Put(cache, key, value) == (key :> value) @@ cache

\* The cache key f'{lat:.6f},{lon:.6f}'.
CoordKey(lat, lon) == Fmt6(lat) \o <<",">> \o Fmt6(lon)

\* HexKey without the prefix.
HexKey_Bare(hex_place_id) == hex_place_id

\* The cache key f'hex:{hex_place_id}'.
HexKey(hex_place_id) == STR_hex \o hex_place_id

\* ---------------------------------------------------------- cache files

NoFile == [exists |-> FALSE]

File(data) == [exists |-> TRUE, data |-> data]

\* cache_data.get('schema_version', 1).
StoredVersion(cache_data) ==
    IF STR_schema_version \in DOMAIN cache_data
    THEN cache_data[STR_schema_version]
    ELSE JInt(1)

\* Comparing the stored version with an integer raises TypeError unless the
\* stored value is a number.
VersionComparable(cache_data) == StoredVersion(cache_data).t = "int"

\* MigratedValue with a record that has a country and no state taken as stale
\* and dropped for re-fetching.
MigratedValue_RefetchStateless(value) ==
    IF value.t = "str"
    THEN IF value.v = "United States" THEN [keep |-> FALSE]
         ELSE [keep |-> TRUE, value |-> Entry(value.v, NULL)]
    ELSE IF value.t = "dict"
         THEN IF value.country # NULL /\ value.state = NULL THEN [keep |-> FALSE]
              ELSE [keep |-> TRUE, value |-> value]
    ELSE IF value.t = "null" THEN [keep |-> TRUE, value |-> NegativeEntry]
    ELSE [keep |-> FALSE]

\* The value a version-1 or version-2 entry migrates to; absent when the
\* entry is dropped (a "United States" string, or a value of another type).
MigratedValue(value) ==
    IF value.t = "str"
    THEN IF value.v = "United States" THEN [keep |-> FALSE]
         ELSE [keep |-> TRUE, value |-> Entry(value.v, NULL)]
    ELSE IF value.t = "dict" THEN [keep |-> TRUE, value |-> value]
    ELSE IF value.t = "null" THEN [keep |-> TRUE, value |-> NegativeEntry]
    ELSE [keep |-> FALSE]

\* migrate_cache_once, for cache_data whose stored version is a number.
migrate_cache_once(cache_data) ==
    IF StoredVersion(cache_data).v >= CACHE_SCHEMA_VERSION
    THEN StripSchema(cache_data)
    ELSE LET cache_entries == StripSchema(cache_data)
             kept == {k \in DOMAIN cache_entries : MigratedValue(cache_entries[k]).keep}
         IN  [k \in kept |-> MigratedValue(cache_entries[k]).value]

\* re.match(r'^-?\d+\.\d+', s) from index i: the index of the last character
\* matched, 0 when it does not match.
DecimalEnd(s, i) ==
    LET a == IF i <= Len(s) /\ s[i] = "-" THEN i + 1 ELSE i
        e1 == RunEnd(s, a, Digits)
        e2 == RunEnd(s, e1 + 2, Digits)
    IN  IF e1 >= a /\ e1 + 1 <= Len(s) /\ s[e1 + 1] = "." /\ e2 >= e1 + 2
        THEN e2 ELSE 0

\* re.match(r'^-?\d+\.\d+,-?\d+\.\d+$', key).
IsCoordKey(key) ==
    LET e1 == DecimalEnd(key, 1)
    IN  /\ e1 # 0
        /\ e1 + 1 <= Len(key)
        /\ key[e1 + 1] = ","
        /\ DecimalEnd(key, e1 + 2) = Len(key)

\* IsSharedKey without the coordinate pattern.
IsSharedKey_HexOnly(key) == MatchesAt(key, 1, STR_hex)

\* key.startswith('hex:') or the coordinate pattern matches.
IsSharedKey(key) == MatchesAt(key, 1, STR_hex) \/ IsCoordKey(key)

\* migrate_cache_to_v3, for data whose stored version is a number: the
\* version-2 entries split into the shared and the place-name cache.
migrate_cache_to_v3(old_cache_data) ==
    LET v2 == IF StoredVersion(old_cache_data).v < 2
              THEN Put(migrate_cache_once(old_cache_data), STR_schema_version, JInt(2))
              ELSE old_cache_data
        cache_entries == StripSchema(v2)
    IN  [shared |-> [k \in {k \in DOMAIN cache_entries : IsSharedKey(k)}
                       |-> cache_entries[k]],
         place |-> [k \in {k \in DOMAIN cache_entries : ~IsSharedKey(k)}
                      |-> cache_entries[k]]]

\* The dict save_cache dumps for one cache: the version tag, then update().
WithSchema(cache) == Update((STR_schema_version :> JInt(CACHE_SCHEMA_VERSION)), cache)

\* save_cache: both files rewritten, the other files left as they are.
save_cache(d, shared, place) ==
    [d EXCEPT !.shared = File(WithSchema(shared)), !.place = File(WithSchema(place))]

\* True iff save_cache raises: open(..., 'w') of a cache file that cannot be
\* written raises OSError, which save_cache does not catch.
save_cache_raises(unwritable) == unwritable \cap {"shared", "place"} # {}

\* The files save_cache leaves when the files of unwritable cannot be
\* opened for writing: the shared file is written first, the place-name
\* file only if that did not raise.
save_cache_on(d, unwritable, shared, place) ==
    IF "shared" \in unwritable THEN d
    ELSE IF "place" \in unwritable THEN [d EXCEPT !.shared = File(WithSchema(shared))]
    ELSE save_cache(d, shared, place)

\* The cache files save_cache has written when it returns or raises.
save_cache_written(unwritable) ==
    IF "shared" \in unwritable THEN {}
    ELSE IF "place" \in unwritable THEN {"shared"}
    ELSE {"shared", "place"}

\* save_failed_lookups with the newest failed row first.
save_failed_lookups_NewestFirst(d, failed) ==
    [d EXCEPT !.failed = File([schema_version |-> 1,
                               total_failed |-> Len(failed),
                               failed_locations |->
                                   [i \in 1..Len(failed) |-> failed[Len(failed) + 1 - i]]])]

\* save_failed_lookups: the report of the failed rows, in list order.
save_failed_lookups(d, failed) ==
    [d EXCEPT !.failed = File([schema_version |-> 1,
                               total_failed |-> Len(failed),
                               failed_locations |-> failed])]

\* Names in the order sorted() gives them.
Alphabetical == <<"California", "Germany", "Texas", "United States">>

\* SortNames with the names in descending order.
SortNames_Descending(names) ==
    LET In(n) == n \in names
        picked == SelectSeq(Alphabetical, In)
    IN  [i \in 1..Len(picked) |-> picked[Len(picked) + 1 - i]]

\* sorted(names), for names among those of Alphabetical.
SortNames(names) == LET In(n) == n \in names IN SelectSeq(Alphabetical, In)

\* save_countries_json: one element per country in sorted order, with its
\* count and its sorted states.
save_countries_json(d, country_states_map) ==
    LET order == SortNames(DOMAIN country_states_map)
    IN  [d EXCEPT !.countries =
            File([i \in 1..Len(order) |->
                    [country |-> order[i],
                     count |-> country_states_map[order[i]].count,
                     states |-> SortNames(country_states_map[order[i]].states)]])]

\* The split-file path of load_cache: each file read if it exists, its
\* schema_version key removed.
load_cache_split(d) ==
    [shared |-> IF d.shared.exists THEN StripSchema(d.shared.data) ELSE EmptyDict,
     place |-> IF d.place.exists THEN StripSchema(d.place.data) ELSE EmptyDict]

\* The legacy path of load_cache up to the save: the old file migrated and
\* split, the shared part merged over the existing shared file, the place
\* part taken as the place-name cache.
load_cache_legacy(d) ==
    LET new == migrate_cache_to_v3(d.legacy.data)
        existing_shared == IF d.shared.exists THEN StripSchema(d.shared.data) ELSE EmptyDict
    IN  [shared |-> Update(existing_shared, new.shared), place |-> new.place]

\* rename_legacy with the legacy file removed instead of renamed.
rename_legacy_Delete(d) == [d EXCEPT !.legacy = NoFile]

\* os.rename(old_cache_file, old_cache_file + '.v2.bak').
rename_legacy(d) == [d EXCEPT !.bak = d.legacy, !.legacy = NoFile]

\* --------------------------------------------------------------- provider

Component(types, long_name) == [types |-> types, long_name |-> long_name]

CompGermany == Component({"country", "political"}, "Germany")

CompUS == Component({"country", "political"}, "United States")

CompCalifornia == Component({"administrative_area_level_1", "political"}, "California")

CompTexas == Component({"administrative_area_level_1", "political"}, "Texas")

CompLocality == Component({"locality", "political"}, "Springfield")

\* The address_components lists a provider answer carries in the model.
ComponentLists ==
    {<<CompLocality>>, <<CompLocality, CompGermany>>,
     <<CompCalifornia, CompUS>>, <<CompTexas, CompUS>>,
     <<CompLocality, CompCalifornia>>}

\* What an outbound call comes back with: status OK with a first result,
\* a status other than OK or no result, a requests.RequestException
\* (transport error, HTTP error status), or a payload of a shape the
\* extraction code does not expect.
Responses ==
    {[kind |-> "ok", components |-> l] : l \in ComponentLists}
    \cup {[kind |-> "not_ok"], [kind |-> "request_exception"], [kind |-> "malformed"]}

\* The loop over address_components: the country component sets country,
\* otherwise the administrative_area_level_1 component sets state.
RECURSIVE ParseComponents(_, _, _)
ParseComponents(components, country, state) ==
    IF components = <<>> THEN [country |-> country, state |-> state]
    ELSE LET c == Head(components)
         IN  IF "country" \in c.types
             THEN ParseComponents(Tail(components), c.long_name, state)
             ELSE IF "administrative_area_level_1" \in c.types
                  THEN ParseComponents(Tail(components), country, c.long_name)
                  ELSE ParseComponents(Tail(components), country, state)

\* The (country, state) a strategy stores and returns for a response that
\* raised nothing out of the function: the parsed components on status OK,
\* (None, None) on another status and on a RequestException.
LookupResult(resp) ==
    IF resp.kind = "ok"
    THEN ParseComponents(resp.components, NULL, NULL)
    ELSE [country |-> NULL, state |-> NULL]

\* True iff the response raises an exception that the except clause of the
\* strategy, requests.RequestException, does not catch.
Propagates(resp) == resp.kind = "malformed"

\* CachedResult in the version-1 shape: the country alone.
CachedResult_CountryOnly(cached) == [country |-> cached.country, state |-> NULL]

\* cached.get('country'), cached.get('state').
CachedResult(cached) == [country |-> cached.country, state |-> cached.state]

\* ----------------------------------------------------------------- inputs

STR_Berlin == <<"B", "e", "r", "l", "i", "n">>

STR_A_B == <<"A", " ", "B">>

\* '/search/1.5,2.5'
URL_coords == STR_search \o <<"1", ".", "5", ",", "2", ".", "5">>

\* '/search/1.5000001,2.5': other coordinates with the cache key of URL_coords.
URL_coords_near == STR_search \o <<"1", ".", "5", "0", "0", "0", "0", "0", "0", "1", ",", "2", ".", "5">>

\* '/search/1.5,2.5/1s0x1:0xA': coordinates and a hex place id.
URL_coords_hex == URL_coords \o <<"/">> \o STR_1s0x \o <<"1">> \o STR_c0x \o <<"A">>

\* '/place/A+B/1s0x1:0xA': a place segment and a hex place id.
URL_place_hex == STR_place \o <<"A", "+", "B", "/">> \o STR_1s0x \o <<"1">> \o STR_c0x \o <<"A">>

\* '/place/A+B/': a place segment only.
URL_place == STR_place \o <<"A", "+", "B", "/">>

\* '/maps': no feature at all.
URL_plain == <<"/", "m", "a", "p", "s">>

\* The rows (Titel, URL) a CSV file of the model is made of.
RowSet ==
    {[title |-> STR_Berlin, url |-> URL_coords],
     [title |-> <<>>, url |-> URL_coords_near],
     [title |-> STR_Berlin, url |-> URL_coords_hex],
     [title |-> <<>>, url |-> URL_place_hex],
     [title |-> <<>>, url |-> URL_place],
     [title |-> STR_schema_version, url |-> URL_plain],
     [title |-> <<" ">>, url |-> URL_plain],
     [title |-> STR_Berlin, url |-> <<>>]}

\* The cache keys of the rows above.
KEY_coords == <<"1", ".", "5", "0", "0", "0", "0", "0", "0", ",",
                "2", ".", "5", "0", "0", "0", "0", "0", "0">>

KEY_hex == STR_hex \o <<"0", "x", "1">> \o STR_c0x \o <<"A">>

\* '-1.5,-2.5': a coordinate key with negative numbers.
KEY_negative == <<"-", "1", ".", "5", ",", "-", "2", ".", "5">>

NoFiles ==
    [shared |-> NoFile, place |-> NoFile, legacy |-> NoFile, bak |-> NoFile,
     failed |-> NoFile, countries |-> NoFile]

\* The cache directory before the run: empty; left by an earlier run of this
\* script; holding a version-1 cache next to the shared cache of another
\* dataset; holding a version-2 cache next to a place-name cache; holding a
\* version-1 cache that has an entry for a place titled schema_version.
InitialDisks ==
    {NoFiles,
     [NoFiles EXCEPT
        !.shared = File(WithSchema(KEY_coords :> Entry("Germany", NULL))),
        !.place = File(WithSchema(STR_Berlin :> NegativeEntry)),
        !.failed = File([schema_version |-> 1, total_failed |-> 1,
                         failed_locations |-> <<<<STR_Berlin, URL_plain>>>>]),
        !.countries = File(<<[country |-> "Germany", count |-> 1, states |-> <<>>]>>)],
     [NoFiles EXCEPT
        !.legacy = File((KEY_coords :> JStr("Germany"))
                        @@ (STR_Berlin :> JStr("United States"))
                        @@ (KEY_hex :> JNull)
                        @@ (STR_A_B :> JNull)),
        !.shared = File(WithSchema((KEY_coords :> Entry("United States", "California"))
                                   @@ (KEY_negative :> Entry("Germany", NULL))))],
     [NoFiles EXCEPT
        !.legacy = File((STR_schema_version :> JInt(2))
                        @@ (STR_A_B :> Entry("Germany", NULL))
                        @@ (KEY_hex :> Entry("United States", "California"))),
        !.place = File(WithSchema(STR_Berlin :> Entry("Germany", NULL)))],
     [NoFiles EXCEPT
        !.legacy = File((STR_schema_version :> JStr("Germany"))
                        @@ (KEY_coords :> JNull))]}

\* ------------------------------------------------------------------ state

VARIABLES
    pc,                 \* where main is
    env,                \* whether the API key is set and the CSV file exists,
                        \* and the files that cannot be opened for writing
    disk,               \* the files of the cache directory
    shared_cache,       \* main's shared_cache dict
    place_name_cache,   \* main's place_name_cache dict
    country_states_map, \* main's aggregate: country -> count and states
    failed_lookups,     \* main's list of (title, url) of unresolved rows
    rows,               \* the rows of the CSV file the loop has reached
    country,            \* the loop body's country
    state,              \* the loop body's state
    exc,                \* the exception the finally block runs under
    interrupted,        \* whether KeyboardInterrupt ended the loop
    calls,              \* every outbound call of the run, in order
    rowLog,             \* what the strategies did for the current row
    history,            \* per completed row: its log and its result
    loaded,             \* the two caches as load_cache returned them
    done,               \* caches, aggregate and failed list when the last
                        \* completed row ended
    written             \* the files written during this run

vars ==
    <<pc, env, disk, shared_cache, place_name_cache, country_states_map,
      failed_lookups, rows, country, state, exc, interrupted, calls, rowLog,
      history, loaded, done, written>>

\* The row the loop body is working on.
Row == rows[Len(rows)]

\* The positions of main inside the try block.
TryPcs ==
    {"loop", "coords", "coord_call", "hex", "hex_call", "name", "name_call",
     "record", "record_state"}

\* An entry of rowLog: strategy s did e ("lookup", "call", "write", or
\* "yield" with the country c it returned).
Ev(s, e, c) == [s |-> s, e |-> e, c |-> c]

\* An entry of calls: the cache and key the call is for, the row it is made
\* for, how it came back, and whether time.sleep(0.1) ran after it.
Call(ns, key, outcome) ==
    [ns |-> ns, key |-> key, row |-> Len(rows), outcome |-> outcome, slept |-> FALSE]

\* True iff the strategy reaches its time.sleep(0.1) after a call that came
\* back this way: the statement stands behind the if block that returns on
\* status OK, inside the try block an exception leaves.
Sleeps(kind) == kind = "not_ok"

\* calls with the outcome of the last call filled in.
Returned(kind) ==
    [calls EXCEPT ![Len(calls)].outcome = kind, ![Len(calls)].slept = Sleeps(kind)]

\* An entry of written: file f was written at stage at of the run.
Wrote(f, at) == [f |-> f, at |-> at]

EmptyMap == [c \in {} |-> [count |-> 0, states |-> {}]]

\* The state main starts in, the files that cannot be written being one of
\* the sets of unwritableSets.
Start(unwritableSets) ==
    /\ pc = "start"
    /\ env \in [api_key : BOOLEAN, csv_exists : BOOLEAN, unwritable : unwritableSets]
    /\ disk \in InitialDisks
    /\ shared_cache = EmptyDict
    /\ place_name_cache = EmptyDict
    /\ country_states_map = EmptyMap
    /\ failed_lookups = <<>>
    /\ rows = <<>>
    /\ country = NULL
    /\ state = NULL
    /\ exc = "none"
    /\ interrupted = FALSE
    /\ calls = <<>>
    /\ rowLog = <<>>
    /\ history = <<>>
    /\ loaded = [shared |-> EmptyDict, place |-> EmptyDict]
    /\ done = [shared |-> EmptyDict, place |-> EmptyDict, map |-> EmptyMap, failed |-> <<>>]
    /\ written = {}

\* A run in a cache directory where every file can be written.
Init == Start({{}})

\* The sets of files that cannot be opened for writing in a run whose cache
\* directory is not fully writable.
UnwritableSets == {{}, {"shared"}, {"place"}, {"failed"}}

\* A run in a cache directory where a file may be unwritable.
WriteFailInit == Start(UnwritableSets)

\* CheckInputs without the test for the CSV file.
CheckInputs_KeyOnly ==
    /\ pc = "start"
    /\ pc' = IF env.api_key THEN "load" ELSE "exit1"
    /\ UNCHANGED <<env, disk, shared_cache, place_name_cache, country_states_map,
                   failed_lookups, rows, country, state, exc, interrupted, calls,
                   rowLog, history, loaded, done, written>>

\* main, lines 468-480: sys.exit(1) without the API key or the CSV file.
CheckInputs ==
    /\ pc = "start"
    /\ pc' = IF env.api_key /\ env.csv_exists THEN "load" ELSE "exit1"
    /\ UNCHANGED <<env, disk, shared_cache, place_name_cache, country_states_map,
                   failed_lookups, rows, country, state, exc, interrupted, calls,
                   rowLog, history, loaded, done, written>>

\* load_cache when no legacy file exists: the split files are read.
LoadSplit ==
    /\ pc = "load"
    /\ ~disk.legacy.exists
    /\ shared_cache' = load_cache_split(disk).shared
    /\ place_name_cache' = load_cache_split(disk).place
    /\ loaded' = load_cache_split(disk)
    /\ done' = [done EXCEPT !.shared = shared_cache', !.place = place_name_cache']
    /\ pc' = "loop"
    /\ UNCHANGED <<env, disk, country_states_map, failed_lookups, rows, country,
                   state, exc, interrupted, calls, rowLog, history, written>>

\* load_cache when a legacy file exists, up to save_cache: the comparison of
\* a stored version that is no number raises TypeError out of main, and so
\* does a cache file that cannot be written raise OSError.
LoadLegacy ==
    /\ pc = "load"
    /\ disk.legacy.exists
    /\ IF VersionComparable(disk.legacy.data)
       THEN /\ shared_cache' = load_cache_legacy(disk).shared
            /\ place_name_cache' = load_cache_legacy(disk).place
            /\ disk' = save_cache_on(disk, env.unwritable, shared_cache', place_name_cache')
            /\ written' = written \cup {Wrote(f, "load") : f \in save_cache_written(env.unwritable)}
            /\ pc' = IF save_cache_raises(env.unwritable) THEN "crashed" ELSE "load_rename"
       ELSE /\ pc' = "crashed"
            /\ UNCHANGED <<shared_cache, place_name_cache, disk, written>>
    /\ UNCHANGED <<env, country_states_map, failed_lookups, rows, country, state,
                   exc, interrupted, calls, rowLog, history, loaded, done>>

\* load_cache, lines 338-342: the legacy file renamed, the caches returned.
LoadRename ==
    /\ pc = "load_rename"
    /\ disk' = rename_legacy(disk)
    /\ loaded' = [shared |-> shared_cache, place |-> place_name_cache]
    /\ done' = [done EXCEPT !.shared = shared_cache, !.place = place_name_cache]
    /\ pc' = "loop"
    /\ UNCHANGED <<env, shared_cache, place_name_cache, country_states_map,
                   failed_lookups, rows, country, state, exc, interrupted, calls,
                   rowLog, history, written>>

\* The end of a row: its log and result join the history, and the caches,
\* the aggregate and the failed list of that moment are remembered.
CompleteRow(skipped) ==
    /\ history' = Append(history, [skipped |-> skipped, log |-> rowLog',
                                   country |-> country', state |-> state'])
    /\ done' = [shared |-> shared_cache', place |-> place_name_cache',
                map |-> country_states_map', failed |-> failed_lookups']

\* NextRow taken while the call of the coordinate strategy has not come
\* back: the next row starts before the row in flight is completed.
NextRow_Overlapping ==
    /\ pc \in {"loop", "coord_call"}
    /\ Len(rows) < MaxRows
    /\ \E row \in RowSet :
        /\ rows' = Append(rows, row)
        /\ rowLog' = <<>>
        /\ country' = NULL
        /\ state' = NULL
        /\ UNCHANGED <<shared_cache, place_name_cache, country_states_map, failed_lookups>>
        /\ IF row.url = <<>>
           THEN pc' = "loop" /\ CompleteRow(TRUE)
           ELSE pc' = "coords" /\ UNCHANGED <<history, done>>
    /\ UNCHANGED <<env, disk, exc, interrupted, calls, loaded, written>>

\* NextRow without the skip of a row with an empty URL.
NextRow_NoSkip ==
    /\ pc = "loop"
    /\ Len(rows) < MaxRows
    /\ \E row \in RowSet :
        /\ rows' = Append(rows, row)
        /\ rowLog' = <<>>
        /\ country' = NULL
        /\ state' = NULL
        /\ pc' = "coords"
    /\ UNCHANGED <<env, disk, shared_cache, place_name_cache, country_states_map,
                   failed_lookups, exc, interrupted, calls, history, loaded, done,
                   written>>

\* The head of the loop body, lines 520-537: the next row is read; a row
\* with an empty URL is skipped, otherwise country and state start as None.
NextRow ==
    /\ pc = "loop"
    /\ Len(rows) < MaxRows
    /\ \E row \in RowSet :
        /\ rows' = Append(rows, row)
        /\ rowLog' = <<>>
        /\ country' = NULL
        /\ state' = NULL
        /\ UNCHANGED <<shared_cache, place_name_cache, country_states_map, failed_lookups>>
        /\ IF row.url = <<>>
           THEN pc' = "loop" /\ CompleteRow(TRUE)
           ELSE pc' = "coords" /\ UNCHANGED <<history, done>>
    /\ UNCHANGED <<env, disk, exc, interrupted, calls, loaded, written>>

\* PendingAfter with every exception caught by the except clause.
PendingAfter_CatchAll(raised) == "none"

\* PendingAfter with the except KeyboardInterrupt clause missing.
PendingAfter_Uncaught(raised) == "error"

\* What the except and finally clauses of main make of an exception raised
\* in the try block: KeyboardInterrupt is caught (line 592), so the finally
\* block runs with no exception pending; any other exception stays pending.
PendingAfter(raised) == IF raised = "KeyboardInterrupt" THEN "none" ELSE "error"

\* An exception that is no KeyboardInterrupt leaves the loop body.
RaiseOutOfLoop ==
    /\ pc' = "finally"
    /\ exc' = PendingAfter("Exception")

\* HexApplies without the test of country.
HexApplies_Always(c, url) == extract_place_id(url) # <<>>

\* The condition under which main calls the hex strategy, lines 545-547.
HexApplies(c, url) == c = NULL /\ extract_place_id(url) # <<>>

\* NameApplies without the test of country.
NameApplies_IgnoreCountry(c, title, url) ==
    /\ extract_place_name(title, url) # <<>>
    /\ ~has_hex_id(url)

\* NameApplies without the test for a hex place id in the URL.
NameApplies_IgnoreHexGate(c, title, url) ==
    /\ c = NULL
    /\ extract_place_name(title, url) # <<>>

\* The condition under which main calls the name strategy, lines 555-567.
NameApplies(c, title, url) ==
    /\ c = NULL
    /\ extract_place_name(title, url) # <<>>
    /\ ~has_hex_id(url)

\* StoreResult without the negative entry of a failed lookup.
StoreResult_NoNegative(cache, key, resp) ==
    IF resp.kind = "ok"
    THEN Put(cache, key, Entry(LookupResult(resp).country, LookupResult(resp).state))
    ELSE cache

\* The cache after a strategy has handled a response that raised nothing out
\* of it: the parsed result stored under the key on status OK (lines
\* 100-102), the failed lookup stored under it otherwise (line 109).
StoreResult(cache, key, resp) ==
    IF resp.kind = "ok"
    THEN Put(cache, key, Entry(LookupResult(resp).country, LookupResult(resp).state))
    ELSE Put(cache, key, NegativeEntry)

\* CoordinatesBegin without the look into the cache: the call goes out for
\* a key that is cached, too.
CoordinatesBegin_NoCacheCheck ==
    /\ pc = "coords"
    /\ LET coords == extract_coordinates_from_url(Row.url)
           cache_key == CoordKey(coords.lat, coords.lon)
       IN  IF ~coords.found
           THEN /\ pc' = "hex"
                /\ UNCHANGED <<country, state, calls, rowLog>>
           ELSE /\ calls' = Append(calls, Call("shared", cache_key, "pending"))
                /\ rowLog' = rowLog \o <<Ev("coord", "lookup", NULL),
                                         Ev("coord", "call", NULL)>>
                /\ pc' = "coord_call"
                /\ UNCHANGED <<country, state>>
    /\ UNCHANGED <<env, disk, shared_cache, place_name_cache, country_states_map,
                   failed_lookups, rows, exc, interrupted, history, loaded, done,
                   written>>

\* get_location_info_from_coordinates up to the request, lines 64-84: no
\* coordinates, nothing happens; a cached key is answered from the shared
\* cache; otherwise the call goes out.
CoordinatesBegin ==
    /\ pc = "coords"
    /\ LET coords == extract_coordinates_from_url(Row.url)
           cache_key == CoordKey(coords.lat, coords.lon)
       IN  IF ~coords.found
           THEN /\ pc' = "hex"
                /\ UNCHANGED <<country, state, calls, rowLog>>
           ELSE IF cache_key \in DOMAIN shared_cache
           THEN /\ country' = CachedResult(shared_cache[cache_key]).country
                /\ state' = CachedResult(shared_cache[cache_key]).state
                /\ rowLog' = rowLog \o <<Ev("coord", "lookup", NULL),
                                         Ev("coord", "yield", country')>>
                /\ pc' = "hex"
                /\ UNCHANGED calls
           ELSE /\ calls' = Append(calls, Call("shared", cache_key, "pending"))
                /\ rowLog' = rowLog \o <<Ev("coord", "lookup", NULL),
                                         Ev("coord", "call", NULL)>>
                /\ pc' = "coord_call"
                /\ UNCHANGED <<country, state>>
    /\ UNCHANGED <<env, disk, shared_cache, place_name_cache, country_states_map,
                   failed_lookups, rows, exc, interrupted, history, loaded, done,
                   written>>

\* get_location_info_from_coordinates from the response on, lines 84-110.
CoordinatesReturn ==
    /\ pc = "coord_call"
    /\ \E resp \in Responses :
        /\ calls' = Returned(resp.kind)
        /\ IF Propagates(resp)
           THEN /\ RaiseOutOfLoop
                /\ UNCHANGED <<shared_cache, country, state, rowLog>>
           ELSE /\ shared_cache' = StoreResult(shared_cache, calls[Len(calls)].key, resp)
                /\ country' = LookupResult(resp).country
                /\ state' = LookupResult(resp).state
                /\ rowLog' = rowLog \o <<Ev("coord", "write", NULL),
                                         Ev("coord", "yield", country')>>
                /\ pc' = "hex"
                /\ UNCHANGED exc
    /\ UNCHANGED <<env, disk, place_name_cache, country_states_map, failed_lookups,
                   rows, interrupted, history, loaded, done, written>>

\* get_location_info_from_hex_place_id up to the request, lines 132-165:
\* called only while there is no country and the URL has a hex place id; a
\* cached key is answered from the shared cache; an id that does not
\* convert is cached as failed; otherwise the call goes out.
HexBegin ==
    /\ pc = "hex"
    /\ LET hex_place_id == extract_place_id(Row.url)
           cache_key == HexKey(hex_place_id)
       IN  IF ~HexApplies(country, Row.url)
           THEN /\ pc' = "name"
                /\ UNCHANGED <<shared_cache, country, state, calls, rowLog>>
           ELSE IF cache_key \in DOMAIN shared_cache
           THEN /\ country' = CachedResult(shared_cache[cache_key]).country
                /\ state' = CachedResult(shared_cache[cache_key]).state
                /\ rowLog' = rowLog \o <<Ev("hex", "lookup", NULL),
                                         Ev("hex", "yield", country')>>
                /\ pc' = "name"
                /\ UNCHANGED <<shared_cache, calls>>
           ELSE IF hex_to_cid(hex_place_id) = <<>>
           THEN /\ shared_cache' = Put(shared_cache, cache_key, NegativeEntry)
                /\ country' = NULL
                /\ state' = NULL
                /\ rowLog' = rowLog \o <<Ev("hex", "lookup", NULL),
                                         Ev("hex", "write", NULL),
                                         Ev("hex", "yield", NULL)>>
                /\ pc' = "name"
                /\ UNCHANGED calls
           ELSE /\ calls' = Append(calls, Call("shared", cache_key, "pending"))
                /\ rowLog' = rowLog \o <<Ev("hex", "lookup", NULL),
                                         Ev("hex", "call", NULL)>>
                /\ pc' = "hex_call"
                /\ UNCHANGED <<shared_cache, country, state>>
    /\ UNCHANGED <<env, disk, place_name_cache, country_states_map, failed_lookups,
                   rows, exc, interrupted, history, loaded, done, written>>

\* get_location_info_from_hex_place_id from the response on, lines 165-193.
HexReturn ==
    /\ pc = "hex_call"
    /\ \E resp \in Responses :
        /\ calls' = Returned(resp.kind)
        /\ IF Propagates(resp)
           THEN /\ RaiseOutOfLoop
                /\ UNCHANGED <<shared_cache, country, state, rowLog>>
           ELSE /\ shared_cache' = StoreResult(shared_cache, calls[Len(calls)].key, resp)
                /\ country' = LookupResult(resp).country
                /\ state' = LookupResult(resp).state
                /\ rowLog' = rowLog \o <<Ev("hex", "write", NULL),
                                         Ev("hex", "yield", country')>>
                /\ pc' = "name"
                /\ UNCHANGED exc
    /\ UNCHANGED <<env, disk, place_name_cache, country_states_map, failed_lookups,
                   rows, interrupted, history, loaded, done, written>>

\* get_location_info_from_place_name up to the request, lines 196-218:
\* called only while there is no country, the place name is not empty and
\* the URL has no hex place id; a cached name is answered from the
\* place-name cache; otherwise the call goes out.
NameBegin ==
    /\ pc = "name"
    /\ LET place_name == extract_place_name(Row.title, Row.url)
       IN  IF ~NameApplies(country, Row.title, Row.url)
           THEN /\ pc' = "record"
                /\ UNCHANGED <<country, state, calls, rowLog>>
           ELSE IF place_name \in DOMAIN place_name_cache
           THEN /\ country' = CachedResult(place_name_cache[place_name]).country
                /\ state' = CachedResult(place_name_cache[place_name]).state
                /\ rowLog' = rowLog \o <<Ev("name", "lookup", NULL),
                                         Ev("name", "yield", country')>>
                /\ pc' = "record"
                /\ UNCHANGED calls
           ELSE /\ calls' = Append(calls, Call("place", place_name, "pending"))
                /\ rowLog' = rowLog \o <<Ev("name", "lookup", NULL),
                                         Ev("name", "call", NULL)>>
                /\ pc' = "name_call"
                /\ UNCHANGED <<country, state>>
    /\ UNCHANGED <<env, disk, shared_cache, place_name_cache, country_states_map,
                   failed_lookups, rows, exc, interrupted, history, loaded, done,
                   written>>

\* NameReturn with the state of an earlier strategy kept when the name
\* strategy returns none.
NameReturn_KeepState ==
    /\ pc = "name_call"
    /\ \E resp \in Responses :
        /\ calls' = Returned(resp.kind)
        /\ IF Propagates(resp)
           THEN /\ RaiseOutOfLoop
                /\ UNCHANGED <<place_name_cache, country, state, rowLog>>
           ELSE /\ place_name_cache' =
                      StoreResult(place_name_cache, calls[Len(calls)].key, resp)
                /\ country' = LookupResult(resp).country
                /\ state' = IF LookupResult(resp).state = NULL
                            THEN state ELSE LookupResult(resp).state
                /\ rowLog' = rowLog \o <<Ev("name", "write", NULL),
                                         Ev("name", "yield", country')>>
                /\ pc' = "record"
                /\ UNCHANGED exc
    /\ UNCHANGED <<env, disk, shared_cache, country_states_map, failed_lookups,
                   rows, interrupted, history, loaded, done, written>>

\* get_location_info_from_place_name from the response on, lines 218-244.
NameReturn ==
    /\ pc = "name_call"
    /\ \E resp \in Responses :
        /\ calls' = Returned(resp.kind)
        /\ IF Propagates(resp)
           THEN /\ RaiseOutOfLoop
                /\ UNCHANGED <<place_name_cache, country, state, rowLog>>
           ELSE /\ place_name_cache' =
                      StoreResult(place_name_cache, calls[Len(calls)].key, resp)
                /\ country' = LookupResult(resp).country
                /\ state' = LookupResult(resp).state
                /\ rowLog' = rowLog \o <<Ev("name", "write", NULL),
                                         Ev("name", "yield", country')>>
                /\ pc' = "record"
                /\ UNCHANGED exc
    /\ UNCHANGED <<env, disk, shared_cache, country_states_map, failed_lookups,
                   rows, interrupted, history, loaded, done, written>>

\* CountRow with the count raised by two.
CountRow_Twice(map, c) ==
    LET old == IF c \in DOMAIN map THEN map[c] ELSE [count |-> 0, states |-> {}]
    IN  (c :> [old EXCEPT !.count = old.count + 2]) @@ map

\* CountRow with the entry created anew for every row.
CountRow_Overwrite(map, c) == (c :> [count |-> 1, states |-> {}]) @@ map

\* country_states_map after lines 574-577: the entry created if missing,
\* its count one higher.
CountRow(map, c) ==
    LET old == IF c \in DOMAIN map THEN map[c] ELSE [count |-> 0, states |-> {}]
    IN  (c :> [old EXCEPT !.count = old.count + 1]) @@ map

\* country_states_map after line 580: the state added to the country's set.
AddState(map, c, s) == [map EXCEPT ![c].states = map[c].states \cup {s}]

\* Lines 572-591 up to the count: a row with a country is counted, a row
\* without one joins the failed list.
Record ==
    /\ pc = "record"
    /\ UNCHANGED <<env, disk, shared_cache, place_name_cache, rows, country, state,
                   exc, interrupted, calls, rowLog, loaded, written>>
    /\ IF country # NULL
       THEN /\ country_states_map' = CountRow(country_states_map, country)
            /\ UNCHANGED failed_lookups
            /\ IF state # NULL
               THEN /\ pc' = "record_state"
                    /\ UNCHANGED <<history, done>>
               ELSE /\ pc' = "loop"
                    /\ CompleteRow(FALSE)
       ELSE /\ failed_lookups' = Append(failed_lookups, <<Row.title, Row.url>>)
            /\ UNCHANGED country_states_map
            /\ pc' = "loop"
            /\ CompleteRow(FALSE)

\* Lines 579-580: the state of a counted row joins the country's states.
RecordState ==
    /\ pc = "record_state"
    /\ UNCHANGED <<env, disk, shared_cache, place_name_cache, failed_lookups, rows,
                   country, state, exc, interrupted, calls, rowLog, loaded, written>>
    /\ country_states_map' = AddState(country_states_map, country, state)
    /\ pc' = "loop"
    /\ CompleteRow(FALSE)

\* The for loop runs out of rows: the try block ends with no exception.
LoopEnd ==
    /\ pc = "loop"
    /\ pc' = "finally"
    /\ UNCHANGED <<env, disk, shared_cache, place_name_cache, country_states_map,
                   failed_lookups, rows, country, state, exc, interrupted, calls,
                   rowLog, history, loaded, done, written>>

\* The operator's KeyboardInterrupt, raised at any point of the try block,
\* a pending outbound call included.
Interrupt ==
    /\ pc \in TryPcs
    /\ interrupted' = TRUE
    /\ exc' = PendingAfter("KeyboardInterrupt")
    /\ pc' = "finally"
    /\ UNCHANGED <<env, disk, shared_cache, place_name_cache, country_states_map,
                   failed_lookups, rows, country, state, calls, rowLog, history,
                   loaded, done, written>>

\* The finally block, lines 595-609: both caches saved, the failed-lookup
\* report saved when the list is not empty; a pending exception then leaves
\* main, and so does the OSError of a file that cannot be written, which
\* nothing in the block catches and which ends the block where it is raised.
Finally ==
    /\ pc = "finally"
    /\ LET saved == save_cache_on(disk, env.unwritable, shared_cache, place_name_cache)
           cache_raises == save_cache_raises(env.unwritable)
           report == ~cache_raises /\ failed_lookups # <<>>
           report_raises == report /\ "failed" \in env.unwritable
       IN  /\ disk' = IF report /\ ~report_raises
                      THEN save_failed_lookups(saved, failed_lookups)
                      ELSE saved
           /\ written' = written
                  \cup {Wrote(f, "finally") : f \in save_cache_written(env.unwritable)}
                  \cup (IF report /\ ~report_raises THEN {Wrote("failed", "finally")} ELSE {})
           /\ pc' = IF exc = "none" /\ ~cache_raises /\ ~report_raises
                    THEN "save_json" ELSE "crashed"
    /\ UNCHANGED <<env, shared_cache, place_name_cache, country_states_map,
                   failed_lookups, rows, country, state, exc, interrupted, calls,
                   rowLog, history, loaded, done>>

\* Lines 611-612: the aggregate written after the try statement.
SaveCountries ==
    /\ pc = "save_json"
    /\ disk' = save_countries_json(disk, country_states_map)
    /\ written' = written \cup {Wrote("countries", "end")}
    /\ pc' = "done"
    /\ UNCHANGED <<env, shared_cache, place_name_cache, country_states_map,
                   failed_lookups, rows, country, state, exc, interrupted, calls,
                   rowLog, history, loaded, done>>

Next ==
    \/ CheckInputs
    \/ LoadSplit
    \/ LoadLegacy
    \/ LoadRename
    \/ NextRow
    \/ CoordinatesBegin
    \/ CoordinatesReturn
    \/ HexBegin
    \/ HexReturn
    \/ NameBegin
    \/ NameReturn
    \/ Record
    \/ RecordState
    \/ LoopEnd
    \/ Interrupt
    \/ Finally
    \/ SaveCountries

Spec == Init /\ [][Next]_vars

\* The program keeps running once it is in the finally block or behind it:
\* nothing there waits for anything.
FairSpec == Spec /\ WF_vars(Finally) /\ WF_vars(SaveCountries)

\* The runs in a cache directory where a file may be unwritable.
WriteFailSpec == WriteFailInit /\ [][Next]_vars

\* ------------------------------------------------- the migration alone

\* '1,2': a place name of digits and a comma, no decimal point.
STR_no_point == <<"1", ",", "2">>

\* The keys of the legacy files below.
MigKeys == {KEY_coords, KEY_negative, KEY_hex, STR_Berlin, STR_no_point}

\* The dicts with keys among keys and values among values.
Dicts(keys, values) == UNION {[ks -> values] : ks \in SUBSET keys}

\* What the first version of the script caches under a key: the country
\* or None.
V1Values == {JStr("Germany"), JStr("United States"), JNull}

\* What the later versions cache under a key.
RecordValues == {Entry("Germany", NULL), Entry("United States", "California"), NegativeEntry}

\* The old cache files json.load can hand to the migration: a file of the
\* first version, which has no version tag and may have cached a place
\* titled schema_version; a file tagged with version 2 or with the current
\* version; a file of version 2 whose tag the record of a place titled
\* schema_version has replaced.
LegacyFiles ==
    Dicts(MigKeys \cup {STR_schema_version}, V1Values)
    \cup {Put(d, STR_schema_version, JInt(v)) :
             d \in Dicts(MigKeys, RecordValues),
             v \in {CACHE_SCHEMA_VERSION - 1, CACHE_SCHEMA_VERSION}}
    \cup {Put(d, STR_schema_version, Entry("Germany", NULL)) :
             d \in Dicts(MigKeys, RecordValues)}

\* An old cache file is on disk and nothing has run.
MigInit ==
    /\ pc = "migrate"
    /\ env = [api_key |-> TRUE, csv_exists |-> TRUE, unwritable |-> {}]
    /\ disk \in {[NoFiles EXCEPT !.legacy = File(f)] : f \in LegacyFiles}
    /\ shared_cache = EmptyDict
    /\ place_name_cache = EmptyDict
    /\ country_states_map = EmptyMap
    /\ failed_lookups = <<>>
    /\ rows = <<>>
    /\ country = NULL
    /\ state = NULL
    /\ exc = "none"
    /\ interrupted = FALSE
    /\ calls = <<>>
    /\ rowLog = <<>>
    /\ history = <<>>
    /\ loaded = [shared |-> EmptyDict, place |-> EmptyDict]
    /\ done = [shared |-> EmptyDict, place |-> EmptyDict, map |-> EmptyMap, failed |-> <<>>]
    /\ written = {}

\* What the migration steps leave alone.
MigFrame ==
    UNCHANGED <<env, disk, country_states_map, failed_lookups, rows, country, state,
                exc, interrupted, calls, rowLog, history, done, written>>

\* migrate_cache_once applied to the old file: the result is held in
\* place_name_cache and remembered in loaded.place; the comparison of a
\* stored version that is no number raises TypeError.
MigrateOnce ==
    /\ pc = "migrate"
    /\ IF VersionComparable(disk.legacy.data)
       THEN /\ place_name_cache' = migrate_cache_once(disk.legacy.data)
            /\ loaded' = [loaded EXCEPT !.place = place_name_cache']
            /\ pc' = "migrated_once"
       ELSE /\ pc' = "crashed"
            /\ UNCHANGED <<place_name_cache, loaded>>
    /\ UNCHANGED shared_cache
    /\ MigFrame

\* migrate_cache_once applied to what it returned, as it is or saved with
\* the version tag of save_cache and read again.
MigrateAgain ==
    /\ pc = "migrated_once"
    /\ \E saved \in BOOLEAN :
          place_name_cache' =
              migrate_cache_once(IF saved THEN WithSchema(place_name_cache)
                                 ELSE place_name_cache)
    /\ pc' = "migrated_twice"
    /\ UNCHANGED <<shared_cache, loaded>>
    /\ MigFrame

\* migrate_cache_to_v3 applied to the old file: the two caches it returns.
MigrateToV3 ==
    /\ pc = "migrate"
    /\ IF VersionComparable(disk.legacy.data)
       THEN /\ shared_cache' = migrate_cache_to_v3(disk.legacy.data).shared
            /\ place_name_cache' = migrate_cache_to_v3(disk.legacy.data).place
            /\ pc' = "split"
       ELSE /\ pc' = "crashed"
            /\ UNCHANGED <<shared_cache, place_name_cache>>
    /\ UNCHANGED loaded
    /\ MigFrame

MigNext ==
    \/ MigrateOnce
    \/ MigrateAgain
    \/ MigrateToV3

\* The migration functions applied to every old cache file of LegacyFiles.
MigSpec == MigInit /\ [][MigNext]_vars

\* --------------------------------- the key and the hex strategy alone

\* Latitudes as the text of a URL: around a rounding boundary of the sixth
\* decimal, around zero, and negative.
LatTexts ==
    {<<"1", ".", "4", "9", "9", "9", "9", "9", "4">>,
     <<"1", ".", "4", "9", "9", "9", "9", "9", "6">>,
     <<"1", ".", "5", "0", "0", "0", "0", "0", "4">>,
     <<"1", ".", "5", "0", "0", "0", "0", "0", "6">>,
     <<"-", "0", ".", "0", "0", "0", "0", "0", "0", "2">>,
     <<"0", ".", "0", "0", "0", "0", "0", "0", "2">>,
     <<"1", ".", "5">>,
     <<"-", "1", ".", "5", "0", "0", "0", "0", "0", "4">>}

\* Longitudes as the text of a URL.
LonTexts == {<<"2", ".", "5">>, <<"2", ".", "5", "0", "0", "0", "0", "0", "4">>}

\* URLs with a hex place id of one and of two hex digits, with a second
\* part that has no hex digit, with a third part, and with none.
HexUrls ==
    {<<"/", "1", "s", "0", "x", "1", ":", "0", "x", "A">>,
     <<"/", "1", "s", "0", "x", "A", "B", ":", "0", "x", "f", "f", "/">>,
     <<"/", "1", "s", "0", "x", "1", ":", "0", "x">>,
     <<"/", "1", "s", "0", "x", "1", ":", "0", "x", "A", ":", "0", "x", "B">>,
     URL_plain}

\* Place ids handed to the hex strategy as they are: without a colon, with
\* nothing, no hex digit or a bare 0x behind the colon, without the 0x
\* prefix, and the empty id.
RawIds ==
    {<<"0", "x", "1">>,
     <<"0", "x", "1", ":">>,
     <<"0", "x", "1", ":", "z", "z">>,
     <<"0", "x", "1", ":", "0", "x">>,
     <<":", "A">>,
     <<>>}

\* Nothing is cached and no function has been applied.
UnitInit ==
    /\ pc = "unit"
    /\ env = [api_key |-> TRUE, csv_exists |-> TRUE, unwritable |-> {}]
    /\ disk = NoFiles
    /\ shared_cache = EmptyDict
    /\ place_name_cache = EmptyDict
    /\ country_states_map = EmptyMap
    /\ failed_lookups = <<>>
    /\ rows = <<>>
    /\ country = NULL
    /\ state = NULL
    /\ exc = "none"
    /\ interrupted = FALSE
    /\ calls = <<>>
    /\ rowLog = <<>>
    /\ history = <<>>
    /\ loaded = [shared |-> EmptyDict, place |-> EmptyDict]
    /\ done = [shared |-> EmptyDict, place |-> EmptyDict, map |-> EmptyMap, failed |-> <<>>]
    /\ written = {}

\* What the applications below leave alone.
UnitFrame ==
    UNCHANGED <<pc, env, disk, place_name_cache, country_states_map, failed_lookups,
                rows, exc, interrupted, loaded, done, written>>

\* One application joins the history: the function applied, its argument,
\* what it did and the cache key it computed.
Applied(op, arg, key) ==
    history' = Append(history, [skipped |-> FALSE, op |-> op, arg |-> arg, key |-> key,
                                log |-> rowLog', country |-> country', state |-> state'])

\* Lines 535-537 and 73: the coordinates of a /search/ URL extracted and
\* their cache key formatted.
KeyOfUrl ==
    /\ Len(history) < MaxRows
    /\ \E lat \in LatTexts, lon \in LonTexts :
          LET url == STR_search \o lat \o <<",">> \o lon
              coords == extract_coordinates_from_url(url)
          IN  /\ coords.found
              /\ rowLog' = <<Ev("coord", "lookup", NULL)>>
              /\ UNCHANGED <<shared_cache, calls, country, state>>
              /\ Applied("key", url, CoordKey(coords.lat, coords.lon))
    /\ UnitFrame

\* get_location_info_from_hex_place_id up to the request, lines 132-165, on
\* a given id: nothing for an empty id; a cached key answered from the
\* cache; an id that does not convert cached as failed with no call;
\* otherwise the call goes out with the converted id.
HexStrategyOn(op, arg, hex_place_id) ==
    LET cache_key == HexKey(hex_place_id)
    IN  IF hex_place_id = <<>>
        THEN /\ rowLog' = <<>>
             /\ country' = NULL
             /\ state' = NULL
             /\ UNCHANGED <<shared_cache, calls>>
             /\ Applied(op, arg, <<>>)
        ELSE IF cache_key \in DOMAIN shared_cache
        THEN /\ country' = CachedResult(shared_cache[cache_key]).country
             /\ state' = CachedResult(shared_cache[cache_key]).state
             /\ rowLog' = <<Ev("hex", "lookup", NULL), Ev("hex", "yield", country')>>
             /\ UNCHANGED <<shared_cache, calls>>
             /\ Applied(op, arg, cache_key)
        ELSE IF hex_to_cid(hex_place_id) = <<>>
        THEN /\ shared_cache' = Put(shared_cache, cache_key, NegativeEntry)
             /\ country' = NULL
             /\ state' = NULL
             /\ rowLog' = <<Ev("hex", "lookup", NULL), Ev("hex", "write", NULL),
                            Ev("hex", "yield", NULL)>>
             /\ UNCHANGED calls
             /\ Applied(op, arg, cache_key)
        ELSE /\ calls' = Append(calls, [ns |-> "shared", key |-> cache_key,
                                        row |-> Len(history) + 1, outcome |-> "pending",
                                        slept |-> FALSE, cid |-> hex_to_cid(hex_place_id)])
             /\ rowLog' = <<Ev("hex", "lookup", NULL), Ev("hex", "call", NULL)>>
             /\ UNCHANGED <<shared_cache, country, state>>
             /\ Applied(op, arg, cache_key)

\* Lines 545-550: the hex strategy on the id extract_place_id finds in a URL.
HexOnUrl ==
    /\ Len(history) < MaxRows
    /\ \E url \in HexUrls : HexStrategyOn("hex_url", url, extract_place_id(url))
    /\ UnitFrame

\* The hex strategy on an id given as it is.
HexOnId ==
    /\ Len(history) < MaxRows
    /\ \E hex_place_id \in RawIds : HexStrategyOn("hex_id", hex_place_id, hex_place_id)
    /\ UnitFrame

UnitNext ==
    \/ KeyOfUrl
    \/ HexOnUrl
    \/ HexOnId

\* The key formatting and the hex strategy applied to the inputs above.
UnitSpec == UnitInit /\ [][UnitNext]_vars

\* ------------------------------------------------------- claim vocabulary

\* The entries load_cache reads back from a cache file.
FileEntries(f) == StripSchema(f.data)

\* The values of a sequence.
Range(seq) == {seq[i] : i \in 1..Len(seq)}

\* The events of a log that strategy s made.
EventsOf(log, s) == {i \in 1..Len(log) : log[i].s = s}

\* True iff the log has an event e of strategy s.
Did(log, s, e) == \E i \in 1..Len(log) : log[i].s = s /\ log[i].e = e

\* The country strategy s returned in the log, NULL when it returned none
\* or did not run.
Yielded(log, s) ==
    IF \E i \in 1..Len(log) : log[i].s = s /\ log[i].e = "yield"
    THEN log[CHOOSE i \in 1..Len(log) : log[i].s = s /\ log[i].e = "yield"].c
    ELSE NULL

\* The place of a strategy in the priority order.
StrategyRank(s) == CASE s = "coord" -> 1 [] s = "hex" -> 2 [] s = "name" -> 3

\* The features of a row that decide its resolution: the coordinate cache
\* key, the hex place id and the place name.
Features(row) ==
    LET coords == extract_coordinates_from_url(row.url)
    IN  [coords |-> IF coords.found THEN CoordKey(coords.lat, coords.lon) ELSE <<>>,
         hex |-> extract_place_id(row.url),
         name |-> extract_place_name(row.title, row.url)]

\* The cache a call's namespace names.
CacheOf(ns) == IF ns = "shared" THEN shared_cache ELSE place_name_cache

\* The rows completed so far that were not skipped.
Resolved == {i \in 1..Len(history) : ~history[i].skipped}

\* The finalize step has run in full: both cache files hold the caches, the
\* report holds the failed list if there is one, the aggregate is written.
Finalized ==
    /\ {Wrote("shared", "finally"), Wrote("place", "finally"), Wrote("countries", "end")}
          \subseteq written
    /\ disk.shared = File(WithSchema(shared_cache))
    /\ disk.place = File(WithSchema(place_name_cache))
    /\ failed_lookups # <<>> =>
          /\ Wrote("failed", "finally") \in written
          /\ disk.failed.exists
          /\ disk.failed.data.failed_locations = failed_lookups
    /\ disk.countries = save_countries_json(disk, country_states_map).countries

\* ------------------------------------------------------------------ claims

\* C1: whenever the row loop has ended, by running out of rows or by the
\* operator's cancellation after any number of rows, the run goes on to
\* write both cache files, the failed-lookup report if the failed list is
\* not empty, and the aggregated JSON.
C1_FinalizeOnEveryEnd ==
    [](((pc = "finally") /\ (interrupted \/ exc = "none")) => <>(pc = "done" /\ Finalized))

\* A cancelled run with a failed row and a counted row has finalized.
C1_Witness ==
    /\ pc = "done"
    /\ interrupted
    /\ Finalized
    /\ failed_lookups # <<>>
    /\ DOMAIN country_states_map # {}

\* C2: once the finally block has run, the entries of each cache file are
\* the entries of the cache in memory, so hold every loaded entry and every
\* entry a strategy wrote.
C2_PersistedEqualsMemory ==
    Wrote("shared", "finally") \in written =>
        /\ FileEntries(disk.shared) = shared_cache
        /\ FileEntries(disk.place) = place_name_cache
        /\ \A k \in DOMAIN loaded.shared : k \in DOMAIN FileEntries(disk.shared)
        /\ \A k \in DOMAIN loaded.place : k \in DOMAIN FileEntries(disk.place)

\* C3: after a cancellation the persisted caches, the aggregate and the
\* failed list are those of the rows completed before it; the row in
\* flight has added nothing.
C3_InFlightRowAddsNothing ==
    (interrupted /\ pc = "done") =>
        /\ FileEntries(disk.shared) = done.shared
        /\ FileEntries(disk.place) = done.place
        /\ country_states_map = done.map
        /\ failed_lookups = done.failed
        /\ disk.countries = save_countries_json(disk, done.map).countries

\* True iff the row has coordinates and a hex place id that converts to its
\* numeric identifier.
HasCoordsAndHex(row) ==
    /\ row.url # <<>>
    /\ extract_coordinates_from_url(row.url).found
    /\ hex_to_cid(extract_place_id(row.url)) # <<>>

C5_FixedOrderStopAtCountry ==
    /\ \A i, j \in 1..Len(rowLog) :
          i < j => StrategyRank(rowLog[i].s) <= StrategyRank(rowLog[j].s)
    /\ \A i \in 1..Len(rowLog) :
          (rowLog[i].e = "yield" /\ rowLog[i].c # NULL) => i = Len(rowLog)

\* A row on which the coordinates failed and the name then gave a country.
C5_Witness ==
    /\ Did(rowLog, "coord", "yield")
    /\ Yielded(rowLog, "coord") = NULL
    /\ Did(rowLog, "name", "call")
    /\ Yielded(rowLog, "name") # NULL

\* True iff the row has a place name and a URL with a hex-id-shaped part,
\* the part being found by the pattern of extract_place_id at some index.
NamedWithHex(row) ==
    /\ row.url # <<>>
    /\ extract_place_name(row.title, row.url) # <<>>
    /\ \E i \in 1..Len(row.url) : HexMatchEnd(row.url, i) # 0

\* C6: a row with a place name and a hex-id-shaped URL never has a name
\* lookup, call or write, neither while it is worked on nor when it is
\* complete, and when it ends without a country it is in the failed list.
C6_NameSkippedOnHexUrl ==
    /\ (pc \in TryPcs \ {"loop"} /\ NamedWithHex(Row)) =>
          /\ EventsOf(rowLog, "name") = {}
          /\ pc # "name_call"
    /\ \A i \in Resolved :
          NamedWithHex(rows[i]) =>
              /\ EventsOf(history[i].log, "name") = {}
              /\ \A c \in Range(calls) : c.row = i => c.ns # "place"
              /\ history[i].country = NULL =>
                    <<rows[i].title, rows[i].url>> \in Range(failed_lookups)

\* A named row whose hex id was called for and did not resolve, now failed.
C6_Witness ==
    \E i \in Resolved :
        /\ NamedWithHex(rows[i])
        /\ Did(history[i].log, "hex", "call")
        /\ Yielded(history[i].log, "hex") = NULL
        /\ <<rows[i].title, rows[i].url>> \in Range(failed_lookups)

\* C7: a row with the coordinate key, hex id and place name of an earlier
\* row of the run makes no outbound call and ends with the country and state
\* the earlier row ended with, whether that row found a country or not.
C7_SecondResolutionFromCache ==
    \A i, j \in Resolved :
        (i < j /\ Features(rows[i]) = Features(rows[j])) =>
            /\ \A c \in Range(calls) : c.row # j
            /\ \A k \in 1..Len(history[j].log) : history[j].log[k].e # "call"
            /\ history[j].country = history[i].country
            /\ history[j].state = history[i].state

\* Two rows with the same features, the first resolved by a call to a
\* country with a state.
C7_Witness ==
    \E i, j \in Resolved :
        /\ i < j
        /\ Features(rows[i]) = Features(rows[j])
        /\ \E c \in Range(calls) : c.row = i
        /\ history[i].country # NULL
        /\ history[i].state # NULL

\* The outcomes of an outbound call that the strategy handles itself.
HandledOutcomes == {"ok", "not_ok", "request_exception"}

\* C8: no two outbound calls of a run are for the same key of the same
\* cache; a call that came back found, not found, with a non-OK status or
\* with a transport error has its key in the cache; no call is for a key
\* that was loaded.
C8_OneCallPerKey ==
    /\ \A i, j \in 1..Len(calls) :
          i # j => <<calls[i].ns, calls[i].key>> # <<calls[j].ns, calls[j].key>>
    /\ \A c \in Range(calls) :
          /\ c.outcome \in HandledOutcomes => c.key \in DOMAIN CacheOf(c.ns)
          /\ c.key \notin DOMAIN loaded[c.ns]

\* A call that ended in a transport error, and a later row with the same
\* features completed.
C8_Witness ==
    \E c \in Range(calls) :
        /\ c.outcome = "request_exception"
        /\ \E j \in Resolved : j > c.row /\ Features(rows[j]) = Features(rows[c.row])

\* The countries and states a record can hold.
Names == Range(Alphabetical)

\* True iff v is a record with a country field and a state field, each a
\* string or null.
IsCacheRecord(v) ==
    /\ v.t = "dict"
    /\ DOMAIN v = {"t", "country", "state"}
    /\ v.country \in Names \cup {NULL}
    /\ v.state \in Names \cup {NULL}

\* C9: from the return of load_cache on, every entry of both caches is a
\* record with a country field and a state field; a failed lookup is the
\* record with both null.
C9_EveryEntryIsRecord ==
    pc \notin {"start", "load", "exit1"} =>
        /\ \A k \in DOMAIN shared_cache : IsCacheRecord(shared_cache[k])
        /\ \A k \in DOMAIN place_name_cache : IsCacheRecord(place_name_cache[k])

\* A run that loaded a migrated failed lookup and cached a new one.
C9_Witness ==
    /\ pc = "done"
    /\ \E k \in DOMAIN loaded.shared : loaded.shared[k] = NegativeEntry
    /\ \E k \in DOMAIN shared_cache \ DOMAIN loaded.shared : shared_cache[k] = NegativeEntry
    /\ \E c \in Range(calls) : c.outcome = "not_ok"

\* C10: no entry a strategy wrote and no result a strategy returned has a
\* state without a country.
C10_NoStateWithoutCountry ==
    /\ \A k \in DOMAIN shared_cache \ DOMAIN loaded.shared :
          shared_cache[k].country = NULL => shared_cache[k].state = NULL
    /\ \A k \in DOMAIN place_name_cache \ DOMAIN loaded.place :
          place_name_cache[k].country = NULL => place_name_cache[k].state = NULL
    /\ country = NULL => state = NULL

\* C11: the caches handed to save_cache never have the key schema_version,
\* and the schema_version of every cache file on disk is the integer
\* version tag.
C11_NoSchemaVersionKey ==
    /\ STR_schema_version \notin DOMAIN shared_cache
    /\ STR_schema_version \notin DOMAIN place_name_cache
    /\ \A f \in {"shared", "place"} :
          disk[f].exists => disk[f].data[STR_schema_version] = JInt(CACHE_SCHEMA_VERSION)

\* C12: the caches of every state of a run, saved by save_cache into a
\* directory without a legacy file and read back by load_cache, come back
\* as the same mappings from key to record.
C12_SaveLoadRoundTrip ==
    load_cache_split(save_cache([disk EXCEPT !.legacy = NoFile],
                                shared_cache, place_name_cache))
        = [shared |-> shared_cache, place |-> place_name_cache]

\* True iff the file is a cache of the first version: under every key a
\* country string or null.
IsV1File(data) == \A k \in DOMAIN data : data[k].t \in {"str", "null"}

\* C13: the migration of a cache of the first version does not fail; every
\* key with a string other than "United States" comes out as the record of
\* that country with a null state, and every key with "United States" is
\* gone.
C13_V1EntriesMigrated ==
    IsV1File(disk.legacy.data) =>
        /\ pc # "crashed"
        /\ pc = "migrated_once" =>
              \A k \in DOMAIN disk.legacy.data :
                  LET value == disk.legacy.data[k]
                  IN  value.t = "str" =>
                          IF value.v = "United States"
                          THEN k \notin DOMAIN loaded.place
                          ELSE /\ k \in DOMAIN loaded.place
                               /\ loaded.place[k] = Entry(value.v, NULL)

\* C14: migrate_cache_once applied to a file tagged with the current version
\* returns its entries as they are, without the tag; applied to what it
\* returned, tagged or not, it returns the same entries again, none purged.
C14_MigrationIdempotent ==
    /\ (pc = "migrated_once"
          /\ StoredVersion(disk.legacy.data) = JInt(CACHE_SCHEMA_VERSION)) =>
              place_name_cache = StripSchema(disk.legacy.data)
    /\ pc = "migrated_twice" =>
          /\ place_name_cache = loaded.place
          /\ DOMAIN loaded.place \subseteq DOMAIN place_name_cache

\* A second application after a first one that migrated a string, purged a
\* "United States" string and kept a failed lookup.
C14_Witness ==
    /\ pc = "migrated_twice"
    /\ \E k \in DOMAIN disk.legacy.data : disk.legacy.data[k] = JStr("United States")
    /\ \E k \in DOMAIN place_name_cache : place_name_cache[k] = Entry("Germany", NULL)
    /\ \E k \in DOMAIN place_name_cache : place_name_cache[k] = NegativeEntry

\* The entries of a cache file that may not exist.
ExistingEntries(f) == IF f.exists THEN FileEntries(f) ELSE EmptyDict

\* C15: the legacy path of load_cache returns and saves caches that hold
\* every migrated legacy entry and every key the shared file and the
\* place-name file held before the load.
C15_LegacyMergeKeepsExisting ==
    [][(pc = "load" /\ pc' = "load_rename") =>
          LET migrated == migrate_cache_to_v3(disk.legacy.data)
          IN  /\ \A k \in DOMAIN migrated.shared : shared_cache'[k] = migrated.shared[k]
              /\ \A k \in DOMAIN migrated.place : place_name_cache'[k] = migrated.place[k]
              /\ DOMAIN ExistingEntries(disk.shared) \subseteq DOMAIN shared_cache'
              /\ DOMAIN ExistingEntries(disk.place) \subseteq DOMAIN place_name_cache'
              /\ FileEntries(disk'.shared) = shared_cache'
              /\ FileEntries(disk'.place) = place_name_cache']_vars

\* True iff s is digits, a point and digits, with or without a minus sign
\* in front.
SignedDecimal(s) ==
    LET t == IF s # <<>> /\ Head(s) = "-" THEN Tail(s) ELSE s
    IN  \E j \in 2..(Len(t) - 1) :
            /\ t[j] = "."
            /\ \A i \in 1..Len(t) : i # j => t[i] \in Digits

\* True iff the key is two signed decimals with a comma between them.
CoordinateShaped(key) ==
    \E i \in 1..Len(key) :
        /\ key[i] = ","
        /\ SignedDecimal(SubSeq(key, 1, i - 1))
        /\ SignedDecimal(SubSeq(key, i + 1, Len(key)))

\* True iff the key starts with "hex:".
HexPrefixed(key) == Len(key) >= 4 /\ SubSeq(key, 1, 4) = <<"h", "e", "x", ":">>

\* The keys of an old cache file after the step from version 1 to version
\* 2: without the tag, and for a file below version 2 without the keys of
\* "United States" strings.
KeysAfterV1Step(data) ==
    IF StoredVersion(data).v < 2
    THEN {k \in DOMAIN data \ {STR_schema_version} : data[k] # JStr("United States")}
    ELSE DOMAIN data \ {STR_schema_version}

\* C16: the two caches migrate_cache_to_v3 returns share no key, hold
\* together the keys the old file has after the step to version 2, and a
\* key is in the shared cache iff it starts with "hex:" or is two signed
\* decimals with a comma between them.
C16_RoutedIntoOnePartition ==
    pc = "split" =>
        /\ DOMAIN shared_cache \cap DOMAIN place_name_cache = {}
        /\ DOMAIN shared_cache \cup DOMAIN place_name_cache
              = KeysAfterV1Step(disk.legacy.data)
        /\ \A k \in KeysAfterV1Step(disk.legacy.data) :
              k \in DOMAIN shared_cache <=> (HexPrefixed(k) \/ CoordinateShaped(k))
        /\ \A k \in DOMAIN shared_cache \cup DOMAIN place_name_cache :
              (shared_cache @@ place_name_cache)[k]
                  \in {disk.legacy.data[k], MigratedValue(disk.legacy.data[k]).value}

\* A file of the first version split into a shared cache with a negative
\* coordinate key and a hex key and a place-name cache with a name of
\* digits and a comma, one "United States" entry purged.
C16_Witness ==
    /\ pc = "split"
    /\ {KEY_negative, KEY_hex} \subseteq DOMAIN shared_cache
    /\ STR_no_point \in DOMAIN place_name_cache
    /\ \E k \in DOMAIN disk.legacy.data : disk.legacy.data[k] = JStr("United States")

\* The rows completed so far that ended with country c.
RowsOf(c) == {i \in Resolved : history[i].country = c}

\* The aggregate the completed rows call for: each country a row ended
\* with, the number of those rows, and the states they ended with.
AggregateOfHistory ==
    [c \in {history[i].country : i \in Resolved} \ {NULL} |->
        [count |-> Cardinality(RowsOf(c)),
         states |-> {history[i].state : i \in RowsOf(c)} \ {NULL}]]

\* C17: whenever no row is in flight, the aggregate has for each country
\* the number of completed rows that ended with it, at least 1, and the set
\* of the states those rows ended with; and no step of a run removes a
\* country, lowers a count or removes a state.
C17_AggregateCountsRows ==
    [][/\ \A c \in DOMAIN country_states_map :
              /\ c \in DOMAIN country_states_map'
              /\ country_states_map'[c].count >= country_states_map[c].count
              /\ country_states_map[c].states \subseteq country_states_map'[c].states
       /\ (Len(history') = Len(rows')) =>
              /\ country_states_map' = AggregateOfHistory'
              /\ \A c \in DOMAIN country_states_map' : country_states_map'[c].count >= 1]_vars

\* Two completed rows that ended with the same country and the same state.
C17_Witness ==
    /\ pc = "loop"
    /\ \E c \in DOMAIN country_states_map :
          /\ country_states_map[c].count = 2
          /\ Cardinality(country_states_map[c].states) = 1
          /\ \A i \in RowsOf(c) : history[i].state # NULL

\* C18: a completed row that ended without a country is in the failed list
\* and the loop goes on to the next row; and however the row loop ended,
\* once the finally block has run and main has ended, the aggregated output
\* is written and holds the aggregate of the rows resolved.
C18_UnresolvedRowNeverAborts ==
    /\ \A i \in Resolved :
          history[i].country = NULL =>
              <<rows[i].title, rows[i].url>> \in Range(failed_lookups)
    /\ (pc \in TryPcs /\ Len(history) = Len(rows)) => pc = "loop"
    /\ (pc \in {"done", "crashed"} /\ Wrote("shared", "finally") \in written) =>
          /\ Wrote("countries", "end") \in written
          /\ disk.countries = save_countries_json(disk, country_states_map).countries

\* The outcomes of an outbound call that are failures of the call.
FailedOutcomes == {"not_ok", "request_exception", "malformed"}

\* C19: no outbound call that failed, by a transport or HTTP error, a
\* status other than OK or a malformed payload, raises an exception out of
\* the row loop, and each has left the negative entry under its key.
C19_CallFailuresHandled ==
    /\ exc = "none"
    /\ \A c \in Range(calls) :
          c.outcome \in FailedOutcomes =>
              /\ c.key \in DOMAIN CacheOf(c.ns)
              /\ CacheOf(c.ns)[c.key] = NegativeEntry

\* C20: when the row loop has ended with no exception pending, the finally
\* block ends with main going on to write the aggregated output, whichever
\* cache or report file cannot be written, and the failed-lookup report of a
\* non-empty failed list is written if that file can be.
C20_WriteFailureNotFatal ==
    [][(pc = "finally" /\ exc = "none") =>
          /\ pc' = "save_json"
          /\ (failed_lookups # <<>> /\ "failed" \notin env.unwritable) =>
                /\ disk'.failed.exists
                /\ disk'.failed.data.failed_locations = failed_lookups]_vars

\* C21: every outbound call that came back, with a result, with a status
\* other than OK or with a transport error, was followed by the delay.
C21_DelayAfterEveryCall ==
    \A c \in Range(calls) : c.outcome \in HandledOutcomes => c.slept

\* A float as a signed number of its units.
Signed(x) == IF x.neg THEN 0 - x.mag ELSE x.mag

Abs(n) == IF n < 0 THEN 0 - n ELSE n

\* The applications of the key formatting so far.
KeyApps == {i \in 1..Len(history) : history[i].op = "key"}

\* The coordinates application i formatted.
CoordsOf(i) == extract_coordinates_from_url(history[i].arg)

\* True iff a and b differ by less than half a unit of the sixth decimal.
Close(a, b) == 2 * Abs(Signed(a) - Signed(b)) < Pow10(FloatDecimals - KeyDecimals)

Nearest6(x) ==
    LET unit == Pow10(FloatDecimals - KeyDecimals)
        below == x.mag \div unit
    IN  CHOOSE g \in {below, below + 1} : 2 * Abs(x.mag - g * unit) < unit

\* True iff a and b have the same sign and the same nearest six-decimal
\* value.
SameCell(a, b) == a.neg = b.neg /\ Nearest6(a) = Nearest6(b)

C23_EmptyUrlRowSkipped ==
    [][/\ (Len(rows') > Len(rows) /\ rows'[Len(rows')].url = <<>>) =>
              /\ pc' = "loop"
              /\ UNCHANGED <<shared_cache, place_name_cache, country_states_map,
                             failed_lookups, calls, disk>>
       /\ \A i \in 1..Len(history') :
              rows'[i].url = <<>> =>
                  /\ history'[i].skipped
                  /\ history'[i].log = <<>>
                  /\ \A n \in 1..Len(calls') : calls'[n].row # i
       /\ \A n \in 1..Len(failed_lookups') : failed_lookups'[n][2] # <<>>
       /\ Len(rows') >= Len(rows)
       /\ SubSeq(rows', 1, Len(rows)) = rows
       /\ \A m, n \in 1..Len(calls') : m < n => calls'[m].row <= calls'[n].row]_vars

\* A titled row with an empty URL skipped after a row that made a call.
C23_Witness ==
    /\ pc = "loop"
    /\ Len(history) = 2
    /\ rows[2].url = <<>>
    /\ rows[2].title # <<>>
    /\ history[2].skipped
    /\ \E n \in 1..Len(calls) : calls[n].row = 1

\* C24: without the API key or without the CSV file main exits with status
\* 1 from its start: no cache is loaded, no file written or renamed, no
\* call made; and main exits this way for no other reason.
C24_InputErrorsAbortBeforeLoading ==
    /\ (~env.api_key \/ ~env.csv_exists) =>
          /\ pc \in {"start", "exit1"}
          /\ disk \in InitialDisks
          /\ written = {}
          /\ calls = <<>>
          /\ shared_cache = EmptyDict
          /\ place_name_cache = EmptyDict
          /\ loaded = [shared |-> EmptyDict, place |-> EmptyDict]
    /\ pc = "exit1" => (~env.api_key \/ ~env.csv_exists)

\* A run with the API key and no CSV file has exited, the legacy cache file
\* still in place.
C24_Witness ==
    /\ pc = "exit1"
    /\ env.api_key
    /\ ~env.csv_exists
    /\ disk.legacy.exists

\* True iff the directory has neither cache file nor a legacy file.
NoCacheFiles(d) == ~d.shared.exists /\ ~d.place.exists /\ ~d.legacy.exists

\* C25: load_cache in a directory with neither cache file nor a legacy file
\* returns two empty caches, and the two files the finally block of such a
\* run writes have the current version as their schema_version.
C25_EmptyLoadCurrentVersion ==
    [][/\ (pc = "load" /\ NoCacheFiles(disk)) =>
              /\ shared_cache' = EmptyDict
              /\ place_name_cache' = EmptyDict
       /\ (pc = "finally" /\ NoCacheFiles(disk)) =>
              /\ disk'.shared.data[STR_schema_version] = JInt(CACHE_SCHEMA_VERSION)
              /\ disk'.place.data[STR_schema_version] = JInt(CACHE_SCHEMA_VERSION)]_vars

\* The place of a name in the ascending order of names.
Rank(name) == CHOOSE i \in 1..Len(Alphabetical) : Alphabetical[i] = name

\* True iff the sequence of names is strictly ascending.
Ascending(names) ==
    \A i, j \in 1..Len(names) : i < j => Rank(names[i]) < Rank(names[j])

\* C26: the aggregated output is a list with one element for each country
\* of the aggregate, the countries ascending; each element has the count of
\* its country and the states of its country, ascending, each once.
C26_OutputSortedByCountry ==
    Wrote("countries", "end") \in written =>
        LET out == disk.countries.data
        IN  /\ {out[i].country : i \in 1..Len(out)} = DOMAIN country_states_map
            /\ Ascending([i \in 1..Len(out) |-> out[i].country])
            /\ \A i \in 1..Len(out) :
                  /\ out[i].count = country_states_map[out[i].country].count
                  /\ Range(out[i].states) = country_states_map[out[i].country].states
                  /\ Ascending(out[i].states)

\* An output whose one country has two states.
C26_Witness ==
    /\ pc = "done"
    /\ \E i \in 1..Len(disk.countries.data) :
          /\ Len(disk.countries.data[i].states) = 2
          /\ disk.countries.data[i].count = 2

\* C27: the coordinate and the hex strategy leave the place-name cache as it
\* is and the name strategy leaves the shared cache as it is; a key that
\* joins the shared cache while a row is worked on is a coordinate key or
\* starts with "hex:", and a key that joins the place-name cache is the
\* place name of the row.
C27_NamespacesKeptApart ==
    [][/\ pc \in {"coords", "coord_call", "hex", "hex_call"} =>
              place_name_cache' = place_name_cache
       /\ pc \in {"name", "name_call"} => shared_cache' = shared_cache
       /\ pc \in TryPcs =>
              /\ \A k \in DOMAIN shared_cache' \ DOMAIN shared_cache :
                    HexPrefixed(k) \/ CoordinateShaped(k)
              /\ \A k \in DOMAIN place_name_cache' \ DOMAIN place_name_cache :
                    /\ k # <<>>
                    /\ k = extract_place_name(Row.title, Row.url)
       /\ \A n \in 1..Len(calls') :
              calls'[n].ns = "shared" <=>
                  (HexPrefixed(calls'[n].key) \/ CoordinateShaped(calls'[n].key))]_vars

\* A run that cached a coordinate key, a hex key and a place name.
C27_Witness ==
    /\ pc = "loop"
    /\ \E k \in DOMAIN shared_cache \ DOMAIN loaded.shared : CoordinateShaped(k)
    /\ \E k \in DOMAIN shared_cache \ DOMAIN loaded.shared : HexPrefixed(k)
    /\ DOMAIN place_name_cache \ DOMAIN loaded.place # {}

\* The number of outbound calls strategy s made in the log.
CallCount(log, s) ==
    Cardinality({i \in 1..Len(log) : log[i].s = s /\ log[i].e = "call"})

\* The logs of the completed rows and of the row worked on.
RowLogs == {rowLog} \cup {history[i].log : i \in 1..Len(history)}

\* C28: in a row each strategy makes at most one outbound call, the hex and
\* the name strategy never both make one, and so a row has at most two
\* outbound calls.
C28_AtMostTwoCallsPerRow ==
    /\ \A log \in RowLogs :
          /\ \A s \in {"coord", "hex", "name"} : CallCount(log, s) <= 1
          /\ CallCount(log, "hex") + CallCount(log, "name") <= 1
    /\ \A i \in 1..Len(rows) :
          Cardinality({n \in 1..Len(calls) : calls[n].row = i}) <= 2

\* A named row that made a coordinate call and a hex call and found no
\* country.
C28_Witness ==
    \E i \in Resolved :
        /\ extract_place_name(rows[i].title, rows[i].url) # <<>>
        /\ CallCount(history[i].log, "coord") = 1
        /\ CallCount(history[i].log, "hex") = 1
        /\ history[i].country = NULL

\* The completed rows that ended without a country, in the order of the rows.
FailedRowsInOrder ==
    LET failed(i) == ~history[i].skipped /\ history[i].country = NULL
        picked == SelectSeq([i \in 1..Len(history) |-> i], failed)
    IN  [n \in 1..Len(picked) |-> <<rows[picked[n]].title, rows[picked[n]].url>>]

\* C29: the failed list is the failed rows in input order; the finally block
\* writes the report iff the list is not empty, with the number of failed
\* rows as total_failed and the list as its entries, and otherwise leaves
\* the report file as it was; no other step touches the file.
C29_FailedReportIffFailedRows ==
    [][/\ failed_lookups = FailedRowsInOrder
       /\ IF pc = "finally" /\ failed_lookups # <<>>
          THEN /\ disk'.failed = File([schema_version |-> 1,
                                       total_failed |-> Len(FailedRowsInOrder),
                                       failed_locations |-> FailedRowsInOrder])
               /\ Wrote("failed", "finally") \in written'
          ELSE /\ disk'.failed = disk.failed
               /\ Wrote("failed", "finally") \in written'
                     <=> Wrote("failed", "finally") \in written]_vars

\* A finished run with two different failed rows in its report.
C29_Witness ==
    /\ pc = "done"
    /\ Len(failed_lookups) = 2
    /\ failed_lookups[1] # failed_lookups[2]
    /\ disk.failed.data.total_failed = 2

\* Place ids that have no second part int(..., 16) accepts.
UnconvertibleIds ==
    {<<"0", "x", "1">>,
     <<"0", "x", "1", ":">>,
     <<"0", "x", "1", ":", "z", "z">>,
     <<"0", "x", "1", ":", "0", "x">>}

\* C30: the hex strategy on an id that does not convert makes no outbound
\* call, returns no country and leaves the negative entry under the "hex:"
\* key; on every id extract_place_id returns the conversion succeeds, so the
\* call goes out with a decimal identifier and nothing is cached before it
\* returns.
C30_UnconvertibleIdCachedNoCall ==
    \A i \in 1..Len(history) :
        /\ (history[i].op = "hex_id" /\ history[i].arg \in UnconvertibleIds) =>
              /\ ~Did(history[i].log, "hex", "call")
              /\ \A n \in 1..Len(calls) : calls[n].row # i
              /\ history[i].country = NULL
              /\ history[i].state = NULL
              /\ HexKey(history[i].arg) \in DOMAIN shared_cache
              /\ shared_cache[HexKey(history[i].arg)] = NegativeEntry
        /\ (history[i].op = "hex_url" /\ extract_place_id(history[i].arg) # <<>>) =>
              /\ Did(history[i].log, "hex", "call")
              /\ ~Did(history[i].log, "hex", "write")
              /\ \E n \in 1..Len(calls) :
                    /\ calls[n].row = i
                    /\ calls[n].key = HexKey(extract_place_id(history[i].arg))
                    /\ calls[n].cid # <<>>
                    /\ \A d \in 1..Len(calls[n].cid) : calls[n].cid[d] \in Digits

\* An id that did not convert, cached as failed, and an id from a URL that
\* went out as a call.
C30_Witness ==
    \E i, j \in 1..Len(history) :
        /\ history[i].op = "hex_id"
        /\ history[i].arg \in UnconvertibleIds
        /\ Did(history[i].log, "hex", "write")
        /\ history[j].op = "hex_url"
        /\ Did(history[j].log, "hex", "call")

\* True iff the row has a URL that yields no coordinates, no hex place id
\* and no place name.
Featureless(row) ==
    /\ row.url # <<>>
    /\ Features(row).coords = <<>>
    /\ Features(row).hex = <<>>
    /\ Features(row).name = <<>>

\* The completed rows without any feature: none has a lookup, a call or a
\* write of any strategy, each ended with no country and no state and is in
\* the failed list.
FeaturelessRowsFail ==
    \A i \in Resolved :
        Featureless(rows[i]) =>
            /\ history[i].log = <<>>
            /\ \A c \in Range(calls) : c.row # i
            /\ history[i].country = NULL
            /\ history[i].state = NULL
            /\ <<rows[i].title, rows[i].url>> \in Range(failed_lookups)

\* C31: a completed row with a URL but no coordinates, no hex id and no
\* place name is a failed lookup with no country and no state, and caused
\* no cache lookup, no cache write and no outbound call; and every completed
\* row that ended with no country ended with no state.
C31_NoCountryNoState ==
    /\ FeaturelessRowsFail
    /\ \A i \in Resolved : history[i].country = NULL => history[i].state = NULL

\* The outbound calls that have not come back.
InFlight(cs) == {i \in 1..Len(cs) : cs[i].outcome = "pending"}

\* What a row's resolution acts on: the caches, the calls, the aggregate
\* and the failed list.
Effects == <<shared_cache, place_name_cache, calls, country_states_map, failed_lookups>>

\* C32: rows are resolved one at a time in input order. At most one
\* outbound call has not come back, and it is the last one made; the calls
\* are in the order of their rows; the loop takes the next row only when
\* every row before is completed; and every cache write, outbound call,
\* aggregate update and failed-list entry of the loop is made for the one
\* row in flight, all rows before it being completed.
C32_OneRowAtATime ==
    [][/\ Cardinality(InFlight(calls')) <= 1
       /\ InFlight(calls') \subseteq {Len(calls')}
       /\ \A i, j \in 1..Len(calls') : i < j => calls'[i].row <= calls'[j].row
       /\ (rows' # rows) =>
              /\ pc = "loop"
              /\ Len(history) = Len(rows)
              /\ rows' = Append(rows, rows'[Len(rows')])
       /\ (pc \in TryPcs /\ Effects' # Effects) =>
              /\ Len(history) = Len(rows) - 1
              /\ rows' = rows
              /\ Len(calls') > Len(calls) =>
                     /\ calls' = Append(calls, calls'[Len(calls')])
                     /\ calls'[Len(calls')].row = Len(rows)]_vars

\* Two completed rows that each made an outbound call and wrote a cache
\* entry, the second behind the first.
C32_Witness ==
    /\ Len(history) = 2
    /\ \A i \in 1..2 : \E c \in Range(calls) : c.row = i /\ c.outcome = "ok"
    /\ DOMAIN country_states_map # {}

\* The sum of the counts of the aggregate.
RECURSIVE SumCounts(_)
SumCounts(map) ==
    IF DOMAIN map = {} THEN 0
    ELSE LET c == CHOOSE x \in DOMAIN map : TRUE
         IN  map[c].count + SumCounts([x \in DOMAIN map \ {c} |-> map[x]])

\* The rows with a URL that have been recorded: the completed ones, and the
\* row in flight once its country is counted and its state is not yet added.
RecordedRows == Cardinality(Resolved) + (IF pc = "record_state" THEN 1 ELSE 0)

\* C33: at every point of the row loop, the counts of all countries and
\* the length of the failed list add up to the number of rows with a URL
\* recorded so far; each such row is in exactly one of the two.
C33_EachRowAccountedOnce ==
    pc \in TryPcs =>
        /\ SumCounts(country_states_map) + Len(failed_lookups) = RecordedRows
        /\ Len(failed_lookups) = Cardinality({i \in Resolved : history[i].country = NULL})

\* Two completed rows with a URL, one counted under a country, one in the
\* failed list.
C33_Witness ==
    /\ pc = "loop"
    /\ Cardinality(Resolved) = 2
    /\ SumCounts(country_states_map) = 1
    /\ Len(failed_lookups) = 1

\* True iff cache new has every entry of cache old with its value, and at
\* most one entry more.
GrownFrom(old, new) ==
    /\ \A k \in DOMAIN old : k \in DOMAIN new /\ new[k] = old[k]
    /\ Cardinality(DOMAIN new) <= Cardinality(DOMAIN old) + 1

\* C34: no step of the row loop removes an entry of a cache or changes its
\* value, a step adds at most one key, which was not cached before; so the
\* entries load_cache returned are in the caches with their values ever
\* after, and the finally block writes every entry with the value it had
\* when it was first cached.
C34_CachesOnlyGrow ==
    [][/\ pc \in TryPcs =>
              /\ GrownFrom(shared_cache, shared_cache')
              /\ GrownFrom(place_name_cache, place_name_cache')
       /\ pc \in {"finally", "save_json"} =>
              /\ shared_cache' = shared_cache
              /\ place_name_cache' = place_name_cache
       /\ pc' \in TryPcs \cup {"finally", "save_json", "done"} =>
              /\ \A k \in DOMAIN loaded'.shared : shared_cache'[k] = loaded'.shared[k]
              /\ \A k \in DOMAIN loaded'.place : place_name_cache'[k] = loaded'.place[k]
       /\ (pc = "finally" /\ pc' # "finally") =>
              /\ \A k \in DOMAIN shared_cache : disk'.shared.data[k] = shared_cache[k]
              /\ \A k \in DOMAIN place_name_cache :
                     disk'.place.data[k] = place_name_cache[k]]_vars

\* A run that loaded an entry, cached another for its first row, answered
\* its second row from that entry and wrote the files.
C34_Witness ==
    /\ pc = "done"
    /\ DOMAIN loaded.shared # {}
    /\ DOMAIN shared_cache # DOMAIN loaded.shared
    /\ Len(history) = 2
    /\ Did(history[1].log, "coord", "write")
    /\ Did(history[2].log, "coord", "lookup")
    /\ ~Did(history[2].log, "coord", "call")

\* The cache strategy s uses, as the step leaves it.
StrategyCacheAfter(s) == IF s = "name" THEN place_name_cache' ELSE shared_cache'

\* The cache key of strategy s for a row.
StrategyKey(s, row) ==
    CASE s = "coord" -> Features(row).coords
      [] s = "hex" -> HexKey(Features(row).hex)
      [] s = "name" -> Features(row).name

\* True iff the step has a strategy return to main.
StrategyYields ==
    /\ rowLog' # rowLog
    /\ rowLog' # <<>>
    /\ rowLog'[Len(rowLog')].e = "yield"

\* C35: the country and the state of a row are always set together, from
\* the one result of the strategy that has just returned, which is the
\* entry that strategy has under its key; nothing else changes either of
\* them while the row is in flight; and the row is counted under that
\* country with that state, the country being that of the last strategy
\* that ran and of no strategy before it.
C35_PairFromOneStrategy ==
    [][/\ StrategyYields =>
              LET s == rowLog'[Len(rowLog')].s
              IN  /\ StrategyCacheAfter(s)[StrategyKey(s, Row)] = Entry(country', state')
                  /\ rowLog'[Len(rowLog')].c = country'
       /\ (<<country, state>>' # <<country, state>>) => (rows' # rows \/ StrategyYields)
       /\ (rows' # rows) => (country' = NULL /\ state' = NULL)
       /\ (Len(history') > Len(history) /\ ~history'[Len(history')].skipped) =>
              LET h == history'[Len(history')]
              IN  /\ h.country = country /\ h.state = state
                  /\ h.country # NULL =>
                         /\ h.log[Len(h.log)] = Ev(h.log[Len(h.log)].s, "yield", h.country)
                         /\ \A i \in 1..(Len(h.log) - 1) :
                                h.log[i].e = "yield" => h.log[i].c = NULL
                         /\ country_states_map'[h.country].count
                                = 1 + (IF h.country \in DOMAIN done.map
                                       THEN done.map[h.country].count ELSE 0)
                         /\ country_states_map'[h.country].states
                                = (IF h.country \in DOMAIN done.map
                                   THEN done.map[h.country].states ELSE {})
                                  \cup ({h.state} \ {NULL})]_vars

\* A completed row whose coordinate strategy came back with a state and no
\* country, and whose name strategy then came back with a country and no
\* state: the row has that country and no state.
C35_Witness ==
    \E i \in Resolved :
        /\ Yielded(history[i].log, "coord") = NULL
        /\ Did(history[i].log, "coord", "write")
        /\ shared_cache[Features(rows[i]).coords].state # NULL
        /\ Yielded(history[i].log, "name") # NULL
        /\ history[i].country # NULL
        /\ history[i].state = NULL
        /\ country_states_map[history[i].country].states = {}

\* C36: whenever the legacy file is on disk, a step leaves it as it is or
\* renames it: the backup file then holds exactly what the legacy file
\* held, and both split files have been written by load_cache before and
\* hold the caches load_cache returns. A backup file, once there, stays as
\* it is. So no step of a run leaves the legacy entries on disk nowhere.
C36_SplitWrittenBeforeRename ==
    [][/\ disk.legacy.exists =>
              \/ disk'.legacy = disk.legacy
              \/ /\ ~disk'.legacy.exists
                 /\ disk'.bak = disk.legacy
                 /\ {Wrote("shared", "load"), Wrote("place", "load")} \subseteq written
                 /\ disk.shared = File(WithSchema(shared_cache))
                 /\ disk.place = File(WithSchema(place_name_cache))
                 /\ disk'.shared = disk.shared
                 /\ disk'.place = disk.place
       /\ disk.bak.exists => disk'.bak = disk.bak]_vars

\* The legacy file has been renamed to its backup name after the split
\* files were written.
C36_Witness ==
    /\ pc = "loop"
    /\ ~disk.legacy.exists
    /\ disk.bak.exists
    /\ Wrote("shared", "load") \in written
    /\ rows = <<>>

\* C37: when load_cache merges a legacy file into the shared file that is
\* there, the shared cache it saves has the keys of both; under every key
\* of the migrated legacy entries it has the migrated legacy value, the
\* value of the shared file for that key being replaced, and under every
\* key only the shared file has it has the value of the shared file.
C37_LegacyValueReplacesShared ==
    [][(pc = "load" /\ pc' = "load_rename" /\ disk.shared.exists) =>
          LET migrated == migrate_cache_to_v3(disk.legacy.data).shared
              existing == FileEntries(disk.shared)
          IN  /\ DOMAIN shared_cache' = DOMAIN migrated \cup DOMAIN existing
              /\ \A k \in DOMAIN migrated : shared_cache'[k] = migrated[k]
              /\ \A k \in DOMAIN existing \ DOMAIN migrated :
                     shared_cache'[k] = existing[k]
              /\ disk'.shared = File(WithSchema(shared_cache'))]_vars

\* The merge of a legacy file whose country for a coordinate key differs
\* from the record the shared file had for it, the shared file having
\* another key the legacy file has not.
C37_Witness ==
    /\ pc = "load_rename"
    /\ KEY_coords \in DOMAIN disk.legacy.data
    /\ disk.legacy.data[KEY_coords] = JStr("Germany")
    /\ shared_cache[KEY_coords] = Entry("Germany", NULL)
    /\ KEY_negative \notin DOMAIN disk.legacy.data
    /\ KEY_negative \in DOMAIN shared_cache
    /\ shared_cache[KEY_negative] = Entry("Germany", NULL)

\* True iff the try block was left by an exception that is not the
\* operator's cancellation: the last call came back with a payload the
\* strategy raised on.
RaisedInLoop == calls # <<>> /\ calls[Len(calls)].outcome = "malformed"

\* C38: when an exception other than the operator's cancellation has left
\* the row loop, the finally block writes both cache files with the caches
\* and, if the failed list is not empty, the report with that list; the
\* exception then leaves main, and the aggregated output is neither
\* written nor changed in that run.
C38_FinallyRunsThenPropagates ==
    [][RaisedInLoop' =>
          /\ exc' = "error"
          /\ pc' \in {"finally", "crashed"}
          /\ Wrote("countries", "end") \notin written'
          /\ disk'.countries = disk.countries
          /\ (pc = "finally") =>
                 /\ pc' = "crashed"
                 /\ {Wrote("shared", "finally"), Wrote("place", "finally")}
                        \subseteq written'
                 /\ disk'.shared = File(WithSchema(shared_cache))
                 /\ disk'.place = File(WithSchema(place_name_cache))
                 /\ IF failed_lookups # <<>>
                    THEN /\ Wrote("failed", "finally") \in written'
                         /\ disk'.failed.data.total_failed = Len(failed_lookups)
                         /\ disk'.failed.data.failed_locations = failed_lookups
                    ELSE disk'.failed = disk.failed]_vars

\* A run whose first row failed and whose second row raised: the caches
\* and the report are written, main has ended with the exception.
C38_Witness ==
    /\ pc = "crashed"
    /\ RaisedInLoop
    /\ Len(failed_lookups) = 1
    /\ Wrote("failed", "finally") \in written
    /\ Wrote("shared", "finally") \in written
    /\ DOMAIN place_name_cache # DOMAIN loaded.place

\* True iff the old cache file carries the tag of the current version, so
\* that migrate_cache_once has nothing to migrate.
TaggedCurrent(data) ==
    /\ StoredVersion(data).t = "int"
    /\ StoredVersion(data).v >= CACHE_SCHEMA_VERSION

\* What C39 says migrate_cache_once returns for the entries of an old file:
\* the negative record under every key with null, the record itself under
\* every key with a record, and as keys the keys of the entries without
\* those whose value is the string "United States".
FailedLookupsPreserved(entries, migrated) ==
    /\ \A k \in DOMAIN entries :
          /\ entries[k].t = "null" => (k \in DOMAIN migrated /\ migrated[k] = NegativeEntry)
          /\ entries[k].t = "dict" => (k \in DOMAIN migrated /\ migrated[k] = entries[k])
    /\ DOMAIN migrated =
          DOMAIN entries \ {k \in DOMAIN entries : entries[k] = JStr("United States")}

\* C39: the migration of an old cache file that is not tagged with the
\* current version does not fail, and it returns the negative record for
\* every key whose value is null, every record as it is, and the keys of
\* the file without those whose value is the string "United States".
C39_V1FailedLookupsPreserved ==
    ~TaggedCurrent(disk.legacy.data) =>
        /\ pc # "crashed"
        /\ pc = "migrated_once" =>
              FailedLookupsPreserved(StripSchema(disk.legacy.data), loaded.place)

====
